---- MODULE Spec2Model ----
(***************************************************************************)
(* Verification model of the CashXChain quantum_vault backend:             *)
(*   - the event relayer        (backend/blockchain/relayer.py)            *)
(*   - the three-agent pipeline (backend/agents/manager.py)                *)
(*   - the HTTP approval flow   (backend/api.py)                           *)
(* Each part has its own specification over the shared variable list; the  *)
(* variables of the other parts stay unchanged.                            *)
(***************************************************************************)
EXTENDS Integers, Sequences, FiniteSets, TLC

(***************************************************************************)
(* Bounds of the model                                                     *)
(***************************************************************************)
\* events that exist on the chain per event type
ChainLen == 2
\* longest page an RPC answer carries in the model (limit=25 in the source)
MaxPage == 2
\* process lifetimes of the relayer (1 = no restart)
MaxLifetimes == 2
\* consecutive failing poll cycles explored
MaxErrors == 7
\* RPC answers that are not the faithful answer for the cursor sent
MaxReplays == 1
\* seen-set cap and the size it is cut to (10_000 and 5_000 in the source,
\* scaled to the event universe of the model)
ProcessedCap == 3
ProcessedKeep == 1
\* /optimize requests, /approve requests, and distinct approval ids
NumOptimize == 2
NumApprove == 2
NumIds == 2

(***************************************************************************)
(* Relayer: configuration  (relayer.py 68-72, 376-383)                     *)
(***************************************************************************)
POLL_INTERVAL_S == 3
MAX_BACKOFF_S == 60
INITIAL_BACKOFF_S == 1

\* None, as a cursor value
Null == [txDigest |-> <<"null", 0>>, eventSeq |-> 0]

\* self.event_handlers, in dict insertion order
EventTypeOrder == <<"AgentRegistered", "TaskCreated">>
EventTypes == {EventTypeOrder[i] : i \in 1..Len(EventTypeOrder)}

\* The events the chain holds for an event type, oldest first.  An event id
\* is the pair (txDigest, eventSeq); a cursor is the id of an event.
ChainLog(et) ==
    [n \in 1..ChainLen |-> [txDigest |-> <<et, n>>, eventSeq |-> 0, etype |-> et]]

Events == UNION {{ChainLog(et)[n] : n \in 1..ChainLen} : et \in EventTypes}
EventId(ev) == [txDigest |-> ev.txDigest, eventSeq |-> ev.eventSeq]
Cursors == {EventId(ev) : ev \in Events} \cup {Null}

\* dedup_key = f"{txDigest}:{eventSeq}"
DedupKey(ev) == <<ev.txDigest, ev.eventSeq>>

\* position on the chain that a cursor denotes (0 for null or foreign ids)
CursorPos(et, c) ==
    IF \E n \in 1..ChainLen : EventId(ChainLog(et)[n]) = c
    THEN CHOOSE n \in 1..ChainLen : EventId(ChainLog(et)[n]) = c
    ELSE 0

\* Answers of suix_queryEvents: a page of events and nextCursor.
\* A faithful node returns the events after the cursor, in chain order, and
\* the id of the last returned event as nextCursor (null on an empty page).
FaithfulAnswers(et, cursor) ==
    LET p == CursorPos(et, cursor)
    IN {[data |-> SubSeq(ChainLog(et), p + 1, p + k),
         nextCursor |-> IF k = 0 THEN Null ELSE EventId(ChainLog(et)[p + k])]
          : k \in 0..(IF ChainLen - p < MaxPage THEN ChainLen - p ELSE MaxPage)}

\* What the relayer may be answered: the faithful answer for its cursor, or
\* a replay of an answer for another position (a node that lags, a load
\* balancer that ignores the cursor): repeated events and empty pages.
AnyAnswers(et) ==
    UNION {FaithfulAnswers(et, c) : c \in {x \in Cursors : x = Null \/ x.txDigest[1] = et}}

\* How a handler call can end.  handle_agent_registered returns True, returns
\* False (QRNG or select_winner failed) or raises; handle_task_created only
\* writes a log line.
HandlerOutcomes(et) ==
    IF et = "AgentRegistered" THEN {"ok", "false", "raise"} ELSE {"ok"}

VARIABLES
    \* ---- relayer program state ----
    rl_pc,               \* position of Relayer.run
    et_idx,              \* index into event_handlers inside _poll_cycle
    running,             \* Relayer.running
    cursors,             \* Relayer.cursors
    processed,           \* Relayer.processed
    cursor_file,         \* content of .relayer_cursor.json
    consecutive_errors,  \* metrics.consecutive_errors
    current_backoff,     \* metrics.current_backoff
    sleep_for,           \* argument of the asyncio.sleep the loop is in
    health,              \* the task running _health_loop
    rpc_client,          \* AsyncSuiRPC._client
    signalled,           \* _shutdown has run in this process
    \* ---- relayer history (observation only) ----
    lifetime,            \* number of process starts so far
    handled,             \* per event: handler calls in this lifetime (0,1,2+)
    handled_before,      \* events handed to a handler in an earlier lifetime
    failed,              \* events whose handler call raised or returned False in this cycle
    replays,             \* RPC answers so far that were not faithful ones
    trims,               \* the seen-set was cut in this lifetime
    skipped,             \* events skipped as duplicates in this lifetime
    last_added,          \* the key added to the seen-set last ({} before the first)
    page,                \* the page answered to the latest poll of the current cycle
    calls,               \* the events that poll handed to the handler, in call order
    cyc                  \* the current or last poll cycle: metrics at its start,
                         \* whether a handler raised in it, and how it ended

rl_vars == <<rl_pc, et_idx, running, cursors, processed, cursor_file,
             consecutive_errors, current_backoff, sleep_for, health, rpc_client,
      signalled, lifetime, handled,
             handled_before, failed, replays, trims, skipped, last_added,
             page, calls, cyc>>

VARIABLES
    \* ---- agent pipeline ----
    pl_pc,               \* the graph node to run next ("idle" when no run is on)
    pstate,              \* the PipelineState handed from agent to agent
    entry,               \* how the current run was entered: run_pipeline or a
                         \* direct call of risk_agent
    trace                \* the agents that have run in the current run, in order

pl_vars == <<pl_pc, pstate, entry, trace>>

VARIABLES
    \* ---- HTTP API ----
    pending_approvals,   \* api.pending_approvals: approval id -> stored entry
    last_result,         \* api.last_result: the plan of the last /optimize response
    opt_req,             \* per /optimize request: position of the handler and its locals
    app_req,             \* per /approve request: position of the handler and its locals
    \* ---- API history (observation only) ----
    txs,                 \* per plan: transactions handed to the transactor by
                         \* /optimize and by /approve (0, 1, 2+)
    resolved             \* plans whose approval entry was taken out of the store

api_vars == <<pending_approvals, last_result, opt_req, app_req, txs, resolved>>

VARIABLES
    \* ---- relayer configuration and demo loop ----
    config,              \* force_demo, PACKAGE_ID and TASK_OBJECT_ID of the process
    demo_cycle,          \* the local counter "cycle" of _demo_loop
    qrng                 \* how the last get_quantum_random call ended ("none" before)

demo_vars == <<config, demo_cycle, qrng>>

VARIABLES
    \* ---- library functions (optimizer, slippage, error map) ----
    lib_call             \* the last call of a library function: its name, arguments and result

VARIABLES
    \* ---- liquidity oracle (core/liquidity.py) ----
    liquidity_cache,     \* _liquidity_cache: pool name -> cached entry
    cache_ts,            \* _cache_ts
    now,                 \* time.time(), in seconds since the module was loaded
    limit_call           \* the last get_dynamic_position_limit call and how it was answered

liq_vars == <<liquidity_cache, cache_ts, now, limit_call>>

VARIABLES
    \* ---- relayer, _poll_event_type taken one await at a time ----
    poll                 \* the locals of _poll_event_type: whether the query is
                         \* awaited or the page is being dispatched, the index
                         \* of the next event of the page, and next_cursor

\* the state of the components added to the three above
VARIABLES
    \* ---- WebSocket clients of the API (api.py 72, 124-133, 546-586) ----
    ws_clients,          \* api.ws_clients: the list of connected WebSockets
    ws_conn,             \* per client: its connection and its websocket_logs handler
    broadcast            \* broadcast_log: the index its for-loop is at, its local
                         \* list dead, and whether the last call raised

ext_vars == <<demo_vars, lib_call, liq_vars, poll, ws_clients, ws_conn, broadcast>>

vars == <<rl_vars, pl_vars, api_vars, ext_vars>>

\* a deployed contract: both ids are set and the demo flag is not given
LiveConfig == [force_demo |-> FALSE, package_id |-> "0xabc", task_object_id |-> "0xdef"]

DemoVarsInit ==
    /\ config = LiveConfig
    /\ demo_cycle = 0
    /\ qrng = "none"

NoCall == [fn |-> "none"]

\* liquidity.py as imported: an empty cache and _cache_ts = 0.0
LiquidityInit ==
    /\ liquidity_cache = << >>
    /\ cache_ts = 0
    /\ now = 0
    /\ limit_call = NoCall

\* WebSocket clients of the model
NumClients == 3

\* api.py as imported: no client is connected, no broadcast was made
WsInit ==
    /\ ws_clients = <<>>
    /\ ws_conn = [c \in 1..NumClients |-> "new"]
    /\ broadcast = [i |-> 1, dead |-> <<>>, raised |-> FALSE]

\* poll: _poll_event_type before its query is answered
ExtInit ==
    /\ DemoVarsInit
    /\ lib_call = NoCall
    /\ LiquidityInit
    /\ poll = [pc |-> "query", i |-> 1, next_cursor |-> Null]
    /\ WsInit

(***************************************************************************)
(* Relayer: helpers                                                        *)
(***************************************************************************)
Min(a, b) == IF a < b THEN a ELSE b

\* a reset that forgets the delay
reset_errors_only == [consecutive_errors |-> 0, current_backoff |-> current_backoff]

\* RelayerMetrics.reset_backoff
reset_backoff == [consecutive_errors |-> 0, current_backoff |-> INITIAL_BACKOFF_S]

\* a doubling without the cap
increase_backoff_uncapped(errs, backoff) ==
    [consecutive_errors |-> errs + 1, current_backoff |-> backoff * 2]

\* a delay that grows by one second per error
increase_backoff_linear(errs, backoff) ==
    [consecutive_errors |-> errs + 1,
     current_backoff |-> Min(backoff + 1, MAX_BACKOFF_S)]

\* RelayerMetrics.increase_backoff
increase_backoff(errs, backoff) ==
    [consecutive_errors |-> errs + 1,
     current_backoff |-> Min(backoff * 2, MAX_BACKOFF_S)]

NoCursors == [et \in EventTypes |-> Null]

\* the cursor file before the first save
MissingFile == [status |-> "missing", content |-> NoCursors]

\* the cursor file after a save that did not finish: open(CURSOR_FILE, "w")
\* has truncated the file and json.dump has written a prefix of the dump of
\* cur, which is not a JSON document
CorruptFile(cur) == [status |-> "corrupt", content |-> cur]

\* a load that hands on whatever the file holds
load_unchecked(file) == file.content

\* load_cursors: the map in the file; {} (every type null) when the file is
\* missing or does not parse
load_cursors(file) == IF file.status = "ok" THEN file.content ELSE NoCursors

\* a save that dumps an empty map whatever it is given
save_empty_map(cur) == [status |-> "ok", content |-> NoCursors]

\* save_cursors: the file after json.dump of the map
save_cursors(cur) == [status |-> "ok", content |-> cur]

\* a dispatch loop that never consults the seen-set
RECURSIVE DispatchPageNoDedup(_, _, _, _)
DispatchPageNoDedup(data, outs, i, st) ==
    IF i > Len(data) THEN st
    ELSE LET ev == data[i]
         IN DispatchPageNoDedup(data, outs, i + 1,
              [processed |-> st.processed \cup {DedupKey(ev)},
               skipped |-> st.skipped,
               calls |-> Append(st.calls, ev),
               handled |-> [st.handled EXCEPT ![ev] = Min(@ + 1, 2)],
               failed |-> IF outs[i] = "ok"
                          THEN st.failed \ {ev}
                          ELSE st.failed \cup {ev}])

\* a dispatch loop that walks the page from its last event to its first
RECURSIVE DispatchPageBackwards(_, _, _, _)
DispatchPageBackwards(data, outs, i, st) ==
    IF i > Len(data) THEN st
    ELSE LET n == Len(data) + 1 - i
             ev == data[n]
             key == DedupKey(ev)
         IN IF key \in st.processed
            THEN DispatchPageBackwards(data, outs, i + 1,
                   [st EXCEPT !.skipped = @ \cup {ev}])
            ELSE DispatchPageBackwards(data, outs, i + 1,
                   [processed |-> st.processed \cup {key},
                    skipped |-> st.skipped,
                    calls |-> Append(st.calls, ev),
                    handled |-> [st.handled EXCEPT ![ev] = Min(@ + 1, 2)],
                    failed |-> IF outs[n] = "ok"
                               THEN st.failed \ {ev}
                               ELSE st.failed \cup {ev}])

\* The for-loop of _poll_event_type over one page.  st carries the seen-set
\* and the history; outs[i] is the outcome of the handler call for data[i]
\* (ignored when the event is skipped as a duplicate).
RECURSIVE DispatchPage(_, _, _, _)
DispatchPage(data, outs, i, st) ==
    IF i > Len(data) THEN st
    ELSE LET ev == data[i]
             key == DedupKey(ev)
         IN IF key \in st.processed
            THEN DispatchPage(data, outs, i + 1,
                   [st EXCEPT !.skipped = @ \cup {ev}])
            ELSE DispatchPage(data, outs, i + 1,
                   [processed |-> st.processed \cup {key},
                    skipped |-> st.skipped,
                    calls |-> Append(st.calls, ev),
                    handled |-> [st.handled EXCEPT ![ev] = Min(@ + 1, 2)],
                    failed |-> IF outs[i] = "ok"
                               THEN st.failed \ {ev}
                               ELSE st.failed \cup {ev}])

\* a poll that never stores the cursor it was given
KeepCursor(cur, et, next_cursor) == cur

\* if next_cursor: self.cursors[event_type] = next_cursor
AdvanceCursor(cur, et, next_cursor) ==
    IF next_cursor # Null THEN [cur EXCEPT ![et] = next_cursor] ELSE cur

\* "Cap in-memory set": the sets the cut can leave.  list(set)[-5000:] takes
\* the tail of the set's iteration order, which is not the insertion order,
\* so any subset of the kept size can remain.
CapProcessed(keys) ==
    IF Cardinality(keys) > ProcessedCap
    THEN {k \in SUBSET keys : Cardinality(k) = ProcessedKeep}
    ELSE {keys}

(***************************************************************************)
(* Relayer: the process  (Relayer.__init__, run, _poll_cycle,              *)
(* _poll_event_type, _health_loop, _shutdown)                              *)
(***************************************************************************)
NumTypes == Len(EventTypeOrder)

\* a step of the relayer leaves the rest of the backend alone
RelayerOnly == UNCHANGED <<pl_vars, api_vars, ext_vars>>

RelayerUp == rl_pc \in {"cycle", "sleep", "backoff"}

\* the coroutine is suspended in an await: the RPC query of an event type
\* (or a handler call on its page), or one of the two sleeps
Suspended ==
    \/ rl_pc = "cycle" /\ et_idx <= NumTypes
    \/ rl_pc \in {"sleep", "backoff"}
    \/ rl_pc \in {"demo_qrng", "demo_sleep"}

NoCycle == [errs0 |-> 0, backoff0 |-> INITIAL_BACKOFF_S, handler_raised |-> FALSE,
            result |-> "none"]

NewCycle(errs, backoff) ==
    [errs0 |-> errs, backoff0 |-> backoff, handler_raised |-> FALSE,
     result |-> "polling"]

\* no relayer process yet; file is what the cursor file holds
RelayerInitWith(file) ==
    /\ rl_pc = "off"
    /\ et_idx = 1
    /\ running = FALSE
    /\ cursors = NoCursors
    /\ processed = {}
    /\ cursor_file = file
    /\ consecutive_errors = 0
    /\ current_backoff = INITIAL_BACKOFF_S
    /\ sleep_for = 0
    /\ health = "none"
    /\ rpc_client = "none"
    /\ signalled = FALSE
    /\ lifetime = 0
    /\ handled = [ev \in Events |-> 0]
    /\ handled_before = {}
    /\ failed = {}
    /\ replays = 0
    /\ trims = FALSE
    /\ skipped = {}
    /\ last_added = {}
    /\ page = <<>>
    /\ calls = <<>>
    /\ cyc = NoCycle

RelayerInit == RelayerInitWith(MissingFile)

\* The process is gone: its memory (seen-set, metrics, loop position) no
\* longer exists; the events it handed to handlers are history.  The cursor
\* map is set by the caller: the map a run ended with is kept for
\* comparison with the file.
ProcessGone ==
    /\ running' = FALSE
    /\ processed' = {}
    /\ consecutive_errors' = 0
    /\ current_backoff' = INITIAL_BACKOFF_S
    /\ et_idx' = 1
    /\ sleep_for' = 0
    /\ handled_before' = handled_before \cup {ev \in Events : handled[ev] > 0}
    /\ handled' = [ev \in Events |-> 0]
    /\ failed' = {}
    /\ trims' = FALSE
    /\ skipped' = {}
    /\ last_added' = {}
    /\ page' = <<>>
    /\ calls' = <<>>
    /\ cyc' = NoCycle

\* a demo mode that looks at the demo flag and the package id only
demo_mode_ignores_task(cfg) ==
    \/ cfg.force_demo
    \/ cfg.package_id \in {"", "0x..."}

\* Relayer.__init__: self.demo_mode
demo_mode(cfg) ==
    \/ cfg.force_demo
    \/ cfg.package_id \in {"", "0x..."}
    \/ cfg.task_object_id \in {"", "0x..."}

\* python relayer.py: module import creates fresh metrics, Relayer() loads the
\* cursors and starts with an empty seen-set, run() enters the poll loop.
Start ==
    /\ rl_pc \in {"off", "stopped", "escaped", "crashed"}
    /\ ~demo_mode(config)
    /\ lifetime < MaxLifetimes
    /\ lifetime' = lifetime + 1
    /\ running' = TRUE
    /\ cursors' = load_cursors(cursor_file)
    /\ processed' = {}
    /\ consecutive_errors' = 0
    /\ current_backoff' = INITIAL_BACKOFF_S
    /\ rl_pc' = "cycle"
    /\ et_idx' = 1
    /\ cyc' = NewCycle(0, INITIAL_BACKOFF_S)
    /\ health' = "sleeping"
    /\ rpc_client' = "open"
    /\ signalled' = FALSE
    /\ UNCHANGED <<cursor_file, sleep_for, handled, handled_before, failed,
                   replays, trims, skipped>>
    /\ UNCHANGED <<last_added, page, calls>>
    /\ RelayerOnly

\* a poll cycle that goes through all event types whatever the flag says
NextTypeIndexIgnoresFlag(idx, run) == idx + 1

\* _poll_cycle: the event type polled after the one at idx.  The running
\* flag is read when the poll of a type has returned, before the next query
\* is sent: "if not self.running: break" ends the cycle.
NextTypeIndex(idx, run) == IF run THEN idx + 1 ELSE NumTypes + 1

\* _poll_event_type for the event type whose query is in flight, the query
\* answered with ans and the handler calls ending as outs says.  A shutdown
\* signal that arrived while the query or a handler was awaited does not
\* stop the page from being processed.
PollEventTypeWith(et, ans, outs) ==
    LET st == DispatchPage(ans.data, outs, 1,
                [processed |-> processed, skipped |-> skipped, calls |-> <<>>,
                 handled |-> handled, failed |-> failed])
    IN /\ cursors' = AdvanceCursor(cursors, et, ans.nextCursor)
       /\ \E kept \in CapProcessed(st.processed) :
             /\ processed' = kept
             /\ trims' = (trims \/ kept # st.processed)
       /\ handled' = st.handled
       /\ skipped' = st.skipped
       /\ page' = ans.data
       /\ calls' = st.calls
       /\ last_added' = IF st.calls = <<>> THEN last_added
                        ELSE {DedupKey(st.calls[Len(st.calls)])}
       /\ failed' = st.failed
       /\ replays' = IF ans \in FaithfulAnswers(et, cursors[et])
                      THEN replays ELSE replays + 1
       /\ cyc' = [cyc EXCEPT !.handler_raised =
                     @ \/ \E i \in 1..Len(ans.data) :
                            /\ outs[i] = "raise"
                            /\ st.handled[ans.data[i]] > handled[ans.data[i]]]

PollEventType ==
    /\ rl_pc = "cycle"
    /\ et_idx <= NumTypes
    /\ LET et == EventTypeOrder[et_idx]
       IN \E ans \in (IF replays < MaxReplays THEN AnyAnswers(et)
                       ELSE FaithfulAnswers(et, cursors[et])) :
            \E outs \in [1..Len(ans.data) -> HandlerOutcomes(et)] :
               PollEventTypeWith(et, ans, outs)
    /\ et_idx' = NextTypeIndex(et_idx, running)
    /\ UNCHANGED <<rl_pc, running, cursor_file, consecutive_errors,
                   current_backoff, sleep_for, lifetime, handled_before,
                   health, rpc_client, signalled>>
    /\ RelayerOnly

\* run: the poll cycle returned: reset_backoff, save_cursors, sleep
EndCycle ==
    /\ rl_pc = "cycle"
    /\ et_idx > NumTypes
    /\ consecutive_errors' = reset_backoff.consecutive_errors
    /\ current_backoff' = reset_backoff.current_backoff
    /\ cursor_file' = save_cursors(cursors)
    /\ rl_pc' = "sleep"
    /\ sleep_for' = POLL_INTERVAL_S
    /\ cyc' = [cyc EXCEPT !.result = "ok"]
    /\ UNCHANGED <<et_idx, running, cursors, processed, lifetime, handled,
                   handled_before, failed, replays, trims, skipped, health,
                   rpc_client, signalled>>
    /\ page' = <<>>
    /\ calls' = <<>>
    /\ UNCHANGED last_added
    /\ RelayerOnly

\* What makes a poll cycle raise: an httpx.HTTPStatusError, ConnectError or
\* TimeoutException (first except clause, which closes the client), or
\* anything else, such as the RuntimeError of an RPC error answer (second
\* except clause).
RpcErrorKinds == {"transport", "other"}

\* the health task once the finally block has called health.cancel()
CancelHealth(h) == IF h = "finished" THEN "finished" ELSE "cancelled"

\* run: rpc.query_events raised: rpc_errors += 1, increase_backoff, close the
\* client after a transport error, sleep(current_backoff)
RpcFails ==
    /\ rl_pc = "cycle"
    /\ et_idx <= NumTypes
    /\ consecutive_errors < MaxErrors
    /\ LET m == increase_backoff(consecutive_errors, current_backoff)
       IN /\ consecutive_errors' = m.consecutive_errors
          /\ current_backoff' = m.current_backoff
          /\ sleep_for' = m.current_backoff
    /\ \E kind \in RpcErrorKinds :
          rpc_client' = IF kind = "transport" THEN "closed" ELSE rpc_client
    /\ rl_pc' = "backoff"
    /\ cyc' = [cyc EXCEPT !.result = "rpc_error"]
    /\ UNCHANGED <<et_idx, running, cursors, processed, cursor_file, lifetime,
                   handled, handled_before, failed, replays, trims, skipped,
                   health, signalled>>
    /\ page' = <<>>
    /\ calls' = <<>>
    /\ UNCHANGED last_added
    /\ RelayerOnly

\* run: rpc.query_events raised a transport error and "await self.rpc.close()"
\* in the except clause raised too.  No handler encloses that await, so the
\* exception leaves the while loop: the finally block cancels the health
\* task, calls close again and, if that call returns, saves the cursors;
\* then run ends with the exception.
RpcFailsCloseRaises ==
    /\ rl_pc = "cycle"
    /\ et_idx <= NumTypes
    /\ health' = CancelHealth(health)
    /\ \E again \in {"ok", "raise"} :
          /\ rpc_client' = IF again = "ok" THEN "closed" ELSE rpc_client
          /\ cursor_file' = IF again = "ok" THEN save_cursors(cursors)
                            ELSE cursor_file
    /\ rl_pc' = "escaped"
    /\ ProcessGone
    /\ UNCHANGED <<cursors, signalled, lifetime, replays>>
    /\ RelayerOnly

\* run: the sleep returned and "while self.running" starts the next cycle;
\* the first query of the cycle opens a client if there is none
Wake ==
    /\ rl_pc \in {"sleep", "backoff"}
    /\ running
    /\ sleep_for' = 0
    /\ rl_pc' = "cycle"
    /\ et_idx' = 1
    /\ cyc' = NewCycle(consecutive_errors, current_backoff)
    /\ failed' = {}
    /\ rpc_client' = "open"
    /\ UNCHANGED <<running, cursors, processed, cursor_file, consecutive_errors,
                   current_backoff, lifetime, handled, handled_before,
                   replays, trims, skipped, health, signalled>>
    /\ UNCHANGED <<last_added, page, calls>>
    /\ RelayerOnly

\* run: the sleep returned and "while self.running" ends the loop: the
\* finally block cancels the health task, closes the client, saves the cursors
StopLoop ==
    /\ rl_pc \in {"sleep", "backoff"}
    /\ ~running
    /\ rl_pc' = "stopped"
    /\ health' = CancelHealth(health)
    /\ rpc_client' = "closed"
    /\ cursor_file' = save_cursors(cursors)
    /\ ProcessGone
    /\ UNCHANGED <<cursors, signalled, lifetime, replays>>
    /\ RelayerOnly

\* run: the loop ended as in StopLoop and "await self.rpc.close()" in the
\* finally block raised (only a client that is still open can fail to
\* close): save_cursors and the final log lines are skipped and run ends
\* with the exception.
StopLoopCloseRaises ==
    /\ rl_pc \in {"sleep", "backoff"}
    /\ ~running
    /\ rpc_client = "open"
    /\ rl_pc' = "escaped"
    /\ health' = CancelHealth(health)
    /\ ProcessGone
    /\ UNCHANGED <<cursors, cursor_file, rpc_client, signalled, lifetime,
                   replays>>
    /\ RelayerOnly

\* _shutdown, run by the event loop on SIGINT / SIGTERM
Shutdown ==
    /\ Suspended
    /\ running
    /\ running' = FALSE
    /\ signalled' = TRUE
    /\ cursor_file' = save_cursors(cursors)
    /\ UNCHANGED <<rl_pc, et_idx, cursors, processed, consecutive_errors,
                   current_backoff, sleep_for, lifetime, handled,
                   handled_before, failed, replays, trims, skipped, cyc,
                   health, rpc_client>>
    /\ UNCHANGED <<last_added, page, calls>>
    /\ RelayerOnly

\* _health_loop: its sleep returned: log and save_cursors, then
\* "while self.running" decides whether the task sleeps again or returns
HealthSave ==
    /\ Suspended
    /\ health = "sleeping"
    /\ cursor_file' = save_cursors(cursors)
    /\ health' = IF running THEN "sleeping" ELSE "finished"
    /\ UNCHANGED <<rl_pc, et_idx, running, cursors, processed,
                   consecutive_errors, current_backoff, sleep_for, lifetime,
                   handled, handled_before, failed, replays, trims, skipped,
                   cyc, rpc_client, signalled>>
    /\ UNCHANGED <<last_added, page, calls>>
    /\ RelayerOnly

\* the process and everything it held in memory
MemoryLost ==
    /\ ProcessGone
    /\ cursors' = NoCursors
    /\ health' = "none"
    /\ rpc_client' = "none"
    /\ signalled' = FALSE

\* the process dies (kill -9, power loss): memory is lost, the file stays
Crash ==
    /\ RelayerUp
    /\ rl_pc' = "crashed"
    /\ MemoryLost
    /\ UNCHANGED <<cursor_file, lifetime, replays>>
    /\ RelayerOnly

\* the places where save_cursors is called: the end of a completed cycle,
\* _shutdown, the health task, the finally block of run
SavePoint ==
    \/ rl_pc = "cycle" /\ et_idx > NumTypes
    \/ Suspended /\ (running \/ health = "sleeping")
    \/ rl_pc \in {"sleep", "backoff"} /\ ~running

\* the process dies inside save_cursors, between the truncation by
\* open(CURSOR_FILE, "w") and the end of json.dump
CrashInSave ==
    /\ RelayerUp
    /\ SavePoint
    /\ rl_pc' = "crashed"
    /\ cursor_file' = CorruptFile(cursors)
    /\ MemoryLost
    /\ UNCHANGED <<lifetime, replays>>
    /\ RelayerOnly

NextRelayer ==
    \/ Start
    \/ PollEventType
    \/ EndCycle
    \/ RpcFails
    \/ RpcFailsCloseRaises
    \/ Wake
    \/ StopLoop
    \/ StopLoopCloseRaises
    \/ Shutdown
    \/ HealthSave
    \/ Crash
    \/ CrashInSave

(***************************************************************************)
(* Relayer: _poll_event_type one await at a time  (relayer.py 400-433)     *)
(* The query, each handler call and the health task's save are separate    *)
(* steps, so that a save can fall between any two of them.                 *)
(***************************************************************************)
\* a poll that stores next_cursor as soon as the query is answered
PollQuerySetsCursor ==
    /\ rl_pc = "cycle"
    /\ et_idx <= NumTypes
    /\ poll.pc = "query"
    /\ LET et == EventTypeOrder[et_idx]
       IN \E ans \in (IF replays < MaxReplays THEN AnyAnswers(et)
                       ELSE FaithfulAnswers(et, cursors[et])) :
            /\ page' = ans.data
            /\ poll' = [pc |-> "dispatch", i |-> 1, next_cursor |-> ans.nextCursor]
            /\ cursors' = AdvanceCursor(cursors, et, ans.nextCursor)
            /\ replays' = IF ans \in FaithfulAnswers(et, cursors[et])
                           THEN replays ELSE replays + 1
    /\ calls' = <<>>
    /\ UNCHANGED <<rl_pc, et_idx, running, processed, cursor_file,
                   consecutive_errors, current_backoff, sleep_for, health,
                   rpc_client, signalled, lifetime, handled, handled_before,
                   failed, trims, skipped, last_added, cyc>>
    /\ UNCHANGED <<pl_vars, api_vars, demo_vars, lib_call, liq_vars,
                   ws_clients, ws_conn, broadcast>>

\* result = await self.rpc.query_events(...): the answer arrives; events and
\* next_cursor are taken from it
PollQuery ==
    /\ rl_pc = "cycle"
    /\ et_idx <= NumTypes
    /\ poll.pc = "query"
    /\ LET et == EventTypeOrder[et_idx]
       IN \E ans \in (IF replays < MaxReplays THEN AnyAnswers(et)
                       ELSE FaithfulAnswers(et, cursors[et])) :
            /\ page' = ans.data
            /\ poll' = [pc |-> "dispatch", i |-> 1, next_cursor |-> ans.nextCursor]
            /\ replays' = IF ans \in FaithfulAnswers(et, cursors[et])
                           THEN replays ELSE replays + 1
    /\ calls' = <<>>
    /\ UNCHANGED <<rl_pc, et_idx, running, cursors, processed, cursor_file,
                   consecutive_errors, current_backoff, sleep_for, health,
                   rpc_client, signalled, lifetime, handled, handled_before,
                   failed, trims, skipped, last_added, cyc>>
    /\ UNCHANGED <<pl_vars, api_vars, demo_vars, lib_call, liq_vars,
                   ws_clients, ws_conn, broadcast>>

\* one pass of the for-loop: the event at poll.i is skipped as a duplicate
\* or handed to the handler, whose call is awaited and ends as out says
PollDispatch ==
    /\ rl_pc = "cycle"
    /\ poll.pc = "dispatch"
    /\ poll.i <= Len(page)
    /\ \E out \in HandlerOutcomes(EventTypeOrder[et_idx]) :
          LET ev == page[poll.i]
              st == DispatchPage(<<ev>>, <<out>>, 1,
                      [processed |-> processed, skipped |-> skipped, calls |-> calls,
                       handled |-> handled, failed |-> failed])
          IN /\ processed' = st.processed
             /\ skipped' = st.skipped
             /\ calls' = st.calls
             /\ handled' = st.handled
             /\ failed' = st.failed
             /\ last_added' = IF st.calls = calls THEN last_added ELSE {DedupKey(ev)}
             /\ cyc' = [cyc EXCEPT !.handler_raised =
                           @ \/ (out = "raise" /\ st.calls # calls)]
    /\ poll' = [poll EXCEPT !.i = @ + 1]
    /\ UNCHANGED <<rl_pc, et_idx, running, cursors, cursor_file,
                   consecutive_errors, current_backoff, sleep_for, health,
                   rpc_client, signalled, lifetime, handled_before, replays,
                   trims, page>>
    /\ UNCHANGED <<pl_vars, api_vars, demo_vars, lib_call, liq_vars,
                   ws_clients, ws_conn, broadcast>>

\* after the loop: the cursor is stored, the seen-set capped, and
\* _poll_cycle goes on to the next event type
PollSetCursor ==
    /\ rl_pc = "cycle"
    /\ poll.pc = "dispatch"
    /\ poll.i > Len(page)
    /\ cursors' = AdvanceCursor(cursors, EventTypeOrder[et_idx], poll.next_cursor)
    /\ \E kept \in CapProcessed(processed) :
          /\ processed' = kept
          /\ trims' = (trims \/ kept # processed)
    /\ et_idx' = NextTypeIndex(et_idx, running)
    /\ poll' = [pc |-> "query", i |-> 1, next_cursor |-> Null]
    /\ UNCHANGED <<rl_pc, running, cursor_file, consecutive_errors,
                   current_backoff, sleep_for, health, rpc_client, signalled,
                   lifetime, handled, handled_before, failed, replays, skipped,
                   last_added, page, calls, cyc>>
    /\ UNCHANGED <<pl_vars, api_vars, demo_vars, lib_call, liq_vars,
                   ws_clients, ws_conn, broadcast>>

\* the relayer with _poll_event_type in steps; a cycle ends, the loop
\* sleeps, wakes or stops, and the health task saves, as before
NextPollSteps ==
    \/ Start
    \/ PollQuery
    \/ PollDispatch
    \/ PollSetCursor
    \/ EndCycle
    \/ Wake
    \/ StopLoop
    \/ Shutdown
    \/ HealthSave

(***************************************************************************)
(* Portfolio optimizer (quantum/optimizer.py)                              *)
(***************************************************************************)
\* number of assets of a universe
NumAssets == 3

\* Fixed point.  A weight of 1.0 is WeightScale units; returns and
\* covariances are in units of 1/MoneyScale; the lambdas of QUBOConfig are in
\* halves (lambda_return 1.0 is 2, lambda_risk 0.5 is 1, lambda_budget 2.0 is 4).
WeightScale == 1200

MoneyScale == 10000

MIN_WEIGHT == WeightScale \div 20

RECURSIVE VecSum(_, _)
\* numpy sum of the entries of w at the positions S
VecSum(w, S) ==
    IF S = {} THEN 0
    ELSE LET i == CHOOSE x \in S : TRUE IN w[i] + VecSum(w, S \ {i})

RECURSIVE Array(_, _)
\* a numpy array over the positions S: every entry of f is computed, once
Array(f, S) ==
    IF S = {} THEN <<>>
    ELSE LET i == CHOOSE x \in S : TRUE IN (i :> f[i]) @@ Array(f, S \ {i})

\* _project_simplex_bounded whose final step only clips (no division by the sum)
project_clip_only(w, ub, n_iters) ==
    Array([i \in DOMAIN w |-> IF w[i] < 0 THEN 0
                              ELSE IF w[i] > ub[i] THEN ub[i] ELSE w[i]], DOMAIN w)

\* _project_simplex_bounded(w, ub, n_iters): w and ub are vectors over the
\* selected positions
project_simplex_bounded(w, ub, n_iters) ==
    LET S == DOMAIN w
        Clip(v) == Array([i \in S |-> IF v[i] < 0 THEN 0
                                      ELSE IF v[i] > ub[i] THEN ub[i] ELSE v[i]], S)
        Rescale(v, s) == Array([i \in S |-> (v[i] * WeightScale) \div s], S)
        Quot(a, b) == IF a >= 0 THEN a \div b ELSE -((-a) \div b)
        Step(clamped, v) ==
            LET s == VecSum(clamped, S)
                excess == s - WeightScale
                free == IF excess > 0
                        THEN {i \in S : clamped[i] < ub[i]}
                        ELSE {i \in S : clamped[i] > 0}
            IN IF excess = 0 THEN [done |-> TRUE, w |-> clamped]
               ELSE IF free = {}
                    THEN [done |-> TRUE, w |-> IF s > 0 THEN Rescale(clamped, s) ELSE v]
                    ELSE [done |-> FALSE,
                          w |-> Array([i \in S |->
                                         IF i \in free
                                         THEN clamped[i] - Quot(excess, Cardinality(free))
                                         ELSE clamped[i]], S)]
        RECURSIVE Loop(_, _)
        \* the for loop over n_iters
        Loop(v, k) ==
            IF k = 0 THEN v
            ELSE CHOOSE r \in {IF st.done THEN st.w ELSE Loop(st.w, k - 1) :
                                  st \in {Step(c, v) : c \in {Clip(v)}}} : TRUE
        pos == Array([i \in S |-> IF w[i] > 0 THEN w[i] ELSE 0], S)
        s0 == VecSum(pos, S)
        start == IF s0 > 0 THEN Rescale(pos, s0)
                 ELSE Array([i \in S |-> WeightScale \div Cardinality(S)], S)
        clipped == Clip(Loop(start, n_iters))
        s1 == VecSum(clipped, S)
    IN IF s1 # WeightScale /\ s1 > 0 THEN Rescale(clipped, s1) ELSE clipped

\* _optimize_continuous_weights(selected_indices): the weights of the
\* selected positions.  raw_w is the direction inv(cov) @ mu (or its
\* min-variance and equal-weight replacements) that numpy computed.
optimize_continuous_weights(selected, raw_w, max_weight) ==
    LET n_sel == Cardinality(selected)
        max_weights == Array(max_weight, selected)
        Low(v) == \E i \in selected : v[i] < MIN_WEIGHT
        Top(v) == CHOOSE i \in selected :
                     \A j \in selected : v[j] < v[i] \/ (v[j] = v[i] /\ i <= j)
        RECURSIVE Trim(_, _, _)
        \* the loop that takes the excess from the largest weights
        Trim(v, excess, k) ==
            IF k = 0 \/ excess = 0 THEN v
            ELSE CHOOSE r \in
                   {Trim(Array([v EXCEPT ![Top(v)] = v[Top(v)] - reduce], selected),
                         excess - reduce, k - 1) :
                      reduce \in {IF excess < v[Top(v)] - MIN_WEIGHT
                                  THEN excess ELSE v[Top(v)] - MIN_WEIGHT}} : TRUE
        Floor(w2) ==
            LET floored == Array([i \in selected |->
                                    IF w2[i] < MIN_WEIGHT THEN MIN_WEIGHT ELSE w2[i]],
                                 selected)
                excess == VecSum(floored, selected) - WeightScale
                trimmed == IF excess > 0 THEN Trim(floored, excess, 20) ELSE floored
            IN Array([i \in selected |->
                        (trimmed[i] * WeightScale) \div VecSum(trimmed, selected)],
                     selected)
        Blend(w1) ==
            CHOOSE r \in
              {IF Low(w2) THEN Floor(w2) ELSE w2 :
                 w2 \in {project_simplex_bounded(
                            Array([i \in selected |->
                                     (w1[i] + WeightScale \div n_sel) \div 2], selected),
                            max_weights, 50)}} : TRUE
    IN CHOOSE r \in
         {IF n_sel > 1 /\ Low(w1) THEN Blend(w1) ELSE w1 :
            w1 \in {project_simplex_bounded(Array(raw_w, selected), max_weights, 50)}} : TRUE

\* build with the covariance term of the couplings not doubled
build_single_cov(mu, cov, cfg) ==
    LET K == cfg.target_assets
        q(p) == cfg.lambda_risk * cov[p[1]][p[2]] + 2 * cfg.lambda_budget * MoneyScale
    IN [linear |-> [i \in DOMAIN mu |-> cfg.lambda_risk * cov[i][i] - cfg.lambda_return * mu[i]
                                    + cfg.lambda_budget * (1 - 2 * K) * MoneyScale],
        quadratic |-> [p \in {r \in (DOMAIN mu) \X (DOMAIN mu) : r[1] < r[2] /\ q(r) # 0} |-> q(p)],
        offset |-> cfg.lambda_budget * K * K * MoneyScale]

\* PortfolioQUBO.build: linear biases, couplings J (kept when not zero) and
\* offset of the binary quadratic model
build(mu, cov, cfg) ==
    LET K == cfg.target_assets
        q(p) == cfg.lambda_risk * 2 * cov[p[1]][p[2]] + 2 * cfg.lambda_budget * MoneyScale
    IN [linear |-> [i \in DOMAIN mu |-> cfg.lambda_risk * cov[i][i] - cfg.lambda_return * mu[i]
                                    + cfg.lambda_budget * (1 - 2 * K) * MoneyScale],
        quadratic |-> [p \in {r \in (DOMAIN mu) \X (DOMAIN mu) : r[1] < r[2] /\ q(r) # 0} |-> q(p)],
        offset |-> cfg.lambda_budget * K * K * MoneyScale]

\* the energy the sampler reports for the sample x of a model
BqmEnergy(bqm, x) ==
    VecSum([i \in DOMAIN bqm.linear |-> bqm.linear[i] * x[i]], DOMAIN bqm.linear)
    + VecSum([p \in DOMAIN bqm.quadratic |-> bqm.quadratic[p] * x[p[1]] * x[p[2]]],
             DOMAIN bqm.quadratic)
    + bqm.offset

\* solve that spreads the weights over every asset of the universe
solve_all_assets(mu, cov, max_weight, cfg, raw_w) ==
    LET all == DOMAIN mu
        bqm == build(mu, cov, cfg)
        Samples == [all -> {0, 1}]
    IN {[allocation |-> x,
         energy |-> BqmEnergy(bqm, x),
         weights |-> optimize_continuous_weights(all, raw_w, max_weight),
         expected_return |-> 0,
         expected_risk |-> 0,
         feasible |-> TRUE]
          : x \in {y \in Samples : \A z \in Samples : BqmEnergy(bqm, y) <= BqmEnergy(bqm, z)}}

\* PortfolioQUBO.solve with the exact solver: the results it can return.  The
\* best sample is one of lowest energy; its selected assets get the
\* continuous weights, all others 0.
solve(mu, cov, max_weight, cfg, raw_w) ==
    LET all == DOMAIN mu
        bqm == build(mu, cov, cfg)
        Samples == [all -> {0, 1}]
        Result(x) ==
            LET selected == {i \in all : x[i] = 1}
                w == optimize_continuous_weights(selected, raw_w, max_weight)
                weights == [i \in all |-> IF i \in selected THEN w[i] ELSE 0]
                variance == VecSum([p \in selected \X selected |->
                                       w[p[1]] * w[p[2]] * cov[p[1]][p[2]]],
                                   selected \X selected)
                               \div (WeightScale * WeightScale)
            IN [allocation |-> x,
                energy |-> BqmEnergy(bqm, x),
                weights |-> weights,
                expected_return |->
                    IF selected = {} THEN 0
                    ELSE VecSum([i \in selected |-> w[i] * mu[i]], selected)
                            \div WeightScale,
                expected_risk |->
                    IF selected = {} THEN 0
                    ELSE CHOOSE r \in 0..MoneyScale :
                            r * r <= variance /\ variance < (r + 1) * (r + 1),
                feasible |-> \A i \in selected : weights[i] <= max_weight[i]]
    IN {Result(x) : x \in {y \in Samples :
                              \A z \in Samples : BqmEnergy(bqm, y) <= BqmEnergy(bqm, z)}}

\* the universes, configurations and directions the optimizer is called with:
\* equal or spread returns, independent or correlated assets, caps of 0, 0.40
\* and 1.0, and the unconstrained direction before the projection (equal,
\* rising, concentrated on one asset, partly negative, zero, negative)
OptimizerInputs ==
    [mu : {[i \in 1..NumAssets |-> 1000], [i \in 1..NumAssets |-> 700 * i - 1200]},
     cov : {[i \in 1..NumAssets |-> [j \in 1..NumAssets |-> IF i = j THEN 400 ELSE 0]],
            [i \in 1..NumAssets |-> [j \in 1..NumAssets |->
                IF i = j THEN 400 + 100 * i
                ELSE IF (i + j) % 2 = 1 THEN -100 ELSE 150]]},
     max_weight : [1..NumAssets -> {0, (2 * WeightScale) \div 5, WeightScale}],
     cfg : [lambda_return : {2}, lambda_risk : {1, 3}, lambda_budget : {0, 4},
            target_assets : 0..NumAssets],
     raw_w : {[i \in 1..NumAssets |-> 1], [i \in 1..NumAssets |-> i],
              [i \in 1..NumAssets |-> IF i = 1 THEN 3 ELSE 0],
              [i \in 1..NumAssets |-> IF i = NumAssets THEN -1 ELSE 1],
              [i \in 1..NumAssets |-> 0], [i \in 1..NumAssets |-> -1]}]

\* the call of a library function is recorded, nothing else changes
LibCall(c) ==
    /\ lib_call' = c
    /\ UNCHANGED <<rl_vars, pl_vars, api_vars, demo_vars, liq_vars, poll,
                   ws_clients, ws_conn, broadcast>>

\* PortfolioQUBO(assets, cov, cfg).solve() under the default lambda_risk
SolveCall ==
    /\ lib_call = NoCall
    /\ \E inp \in {i \in OptimizerInputs : i.cfg.lambda_risk = 1} :
          \E r \in solve(inp.mu, inp.cov, inp.max_weight, inp.cfg, inp.raw_w) :
              LibCall([fn |-> "solve", inp |-> inp, out |-> r])

\* PortfolioQUBO(assets, cov, cfg).build()
BuildCall ==
    /\ lib_call = NoCall
    /\ \E inp \in {[mu |-> i.mu, cov |-> i.cov, cfg |-> i.cfg] : i \in OptimizerInputs} :
          LibCall([fn |-> "build", inp |-> inp, out |-> build(inp.mu, inp.cov, inp.cfg)])

\* make_test_universe: the five mock assets, their covariance and their caps
make_test_universe ==
    [symbols |-> <<"SUI", "ETH", "BTC", "SOL", "AVAX">>,
     mu |-> <<3500, 2000, 1500, 3000, 2500>>,
     cov |-> <<<<1600, 480, 300, 700, 550>>,
               <<480, 900, 450, 400, 350>>,
               <<300, 450, 500, 250, 200>>,
               <<700, 400, 250, 1400, 600>>,
               <<550, 350, 200, 600, 1100>>>>,
     max_weight |-> [i \in 1..5 |-> (2 * WeightScale) \div 5]]

\* market_agent, the sentiment adjustment: every expected return gets
\* (risk_tolerance - 0.5) * 0.05 and a draw eps[i] of np.random.normal(0, 0.01);
\* risk_tolerance is in percent
adjusted_returns(mu, risk_tolerance, eps) ==
    [i \in DOMAIN mu |-> mu[i] + (risk_tolerance - 50) * 5 + eps[i]]

\* draws of the noise for a universe of n assets: none, and one standard
\* deviation up and down in turn
NoiseDraws(n) ==
    {[i \in 1..n |-> 0],
     [i \in 1..n |-> IF i % 2 = 1 THEN 100 ELSE -100],
     [i \in 1..n |-> IF i % 2 = 1 THEN -100 ELSE 100]}

(***************************************************************************)
(* Agent pipeline: guardrails  (manager.py 529-537)                        *)
(* Fractions are held as integer percent (0.40 is 40), the solver time in  *)
(* tenths of a second (5.0 s is 50), money in whole USD.                   *)
(***************************************************************************)
MAX_POSITION_WEIGHT == 40
MAX_PORTFOLIO_RISK == 45
MIN_EXPECTED_RETURN == 1
MAX_SOLVER_TIME_S == 50
MAX_DAILY_VOLUME_USD == 1000000
APPROVAL_THRESHOLD_USD == 50000
APPROVAL_RISK_THRESHOLD == 30

\* Optional[...]: None, or the value
None == <<>>
Some(x) == <<x>>

Assets == {"SUI", "ETH"}

\* a dict without entries
EmptyMap == [a \in {} |-> 0]

\* weights an optimization result can carry (percent): around the 5 %
\* that makes the estimated value 50,000 USD and around the 40 % position cap
WeightVals == {0, 2, 3, 40, 41}
WeightMaps == [Assets -> WeightVals] \cup {EmptyMap}

\* OptimizationResult, as far as the risk agent reads it
OptResults ==
    [feasible : BOOLEAN,
     weights : WeightMaps,
     allocation : [Assets -> {0, 1}],
     expected_risk : {30, 31, 45, 46},
     expected_return : {0, 1},
     solver_time_s : {50, 51}]

\* slippage_estimates: per symbol, whether the estimate exceeds the maximal
\* market impact; empty when no estimate was made
SlippageMaps == [Assets -> BOOLEAN] \cup {EmptyMap}

\* the keys of the check map, in the order risk_agent fills them
CheckOrder == <<"optimizer_feasible", "position_size_ok", "risk_within_limit",
                "return_sufficient", "solver_fast_enough", "assets_selected",
                "slippage_acceptable">>
CheckNames == {CheckOrder[i] : i \in 1..Len(CheckOrder)}

\* What a caller can pass as risk_tolerance.  /optimize validates the field
\* as a float in [0, 1]; the WebSocket endpoint hands on whatever the JSON
\* message holds: a number, NaN, or a value that is no number (a string,
\* null).
RiskToleranceKinds == {"number", "nan", "other"}

\* PipelineState(user_id, risk_tolerance, use_mock)
NewPipelineState(use_mock) ==
    [use_mock |-> use_mock,
     risk_tolerance |-> "number",
     market |-> "none",
     optimization_result |-> None,
     slippage_estimates |-> EmptyMap,
     risk_approved |-> FALSE,
     risk_checks |-> EmptyMap,
     status |-> "pending",
     requires_approval |-> FALSE,
     approval_reasons |-> {}]

\* max(opt.weights.values()) if opt.weights else 0.0
MaxWeight(w) ==
    IF DOMAIN w = {} THEN 0
    ELSE CHOOSE m \in {w[a] : a \in DOMAIN w} : \A a \in DOMAIN w : w[a] <= m

\* sum(w for w in opt.weights.values() if w > 0)
RECURSIVE SumPositive(_, _)
SumPositive(w, S) ==
    IF S = {} THEN 0
    ELSE LET a == CHOOSE x \in S : TRUE
         IN (IF w[a] > 0 THEN w[a] ELSE 0) + SumPositive(w, S \ {a})

\* sum(1 for v in opt.allocation.values() if v == 1)
NSelected(alloc) == Cardinality({a \in DOMAIN alloc : alloc[a] = 1})

\* boundary comparisons made strict
CheckValueStrict(name, opt, slip) ==
    CASE name = "optimizer_feasible" -> opt.feasible
      [] name = "position_size_ok" -> MaxWeight(opt.weights) < MAX_POSITION_WEIGHT
      [] name = "risk_within_limit" -> opt.expected_risk < MAX_PORTFOLIO_RISK
      [] name = "return_sufficient" -> opt.expected_return > MIN_EXPECTED_RETURN
      [] name = "solver_fast_enough" -> opt.solver_time_s < MAX_SOLVER_TIME_S
      [] name = "assets_selected" -> NSelected(opt.allocation) >= 1
      [] name = "slippage_acceptable" ->
            IF DOMAIN slip # {} THEN ~(\E a \in DOMAIN slip : slip[a]) ELSE TRUE

\* the value of each of the seven checks
CheckValue(name, opt, slip) ==
    CASE name = "optimizer_feasible" -> opt.feasible
      [] name = "position_size_ok" -> MaxWeight(opt.weights) <= MAX_POSITION_WEIGHT
      [] name = "risk_within_limit" -> opt.expected_risk <= MAX_PORTFOLIO_RISK
      [] name = "return_sufficient" -> opt.expected_return >= MIN_EXPECTED_RETURN
      [] name = "solver_fast_enough" -> opt.solver_time_s <= MAX_SOLVER_TIME_S
      [] name = "assets_selected" -> NSelected(opt.allocation) >= 1
      [] name = "slippage_acceptable" ->
            IF DOMAIN slip # {} THEN ~(\E a \in DOMAIN slip : slip[a]) ELSE TRUE

\* a check map that stops at the first failing check
RiskChecksShortCircuit(opt, slip) ==
    LET firstFail == IF \E i \in 1..Len(CheckOrder) : ~CheckValue(CheckOrder[i], opt, slip)
                     THEN CHOOSE i \in 1..Len(CheckOrder) :
                            /\ ~CheckValue(CheckOrder[i], opt, slip)
                            /\ \A j \in 1..(i - 1) : CheckValue(CheckOrder[j], opt, slip)
                     ELSE Len(CheckOrder)
    IN [n \in {CheckOrder[i] : i \in 1..firstFail} |-> CheckValue(n, opt, slip)]

\* checks = {...}: all seven entries are computed, none short-circuits
RiskChecks(opt, slip) == [n \in CheckNames |-> CheckValue(n, opt, slip)]

\* approval_reasons without the rule on the estimated trade value
ApprovalReasonsRiskOnly(opt) ==
    {r \in {"risk"} : opt.expected_risk > APPROVAL_RISK_THRESHOLD}

\* approval_reasons of a result that passed every check
ApprovalReasons(opt) ==
    {r \in {"value", "risk"} :
        \/ /\ r = "value"
           /\ SumPositive(opt.weights, DOMAIN opt.weights) * MAX_DAILY_VOLUME_USD
                 > APPROVAL_THRESHOLD_USD * 100
        \/ /\ r = "risk"
           /\ opt.expected_risk > APPROVAL_RISK_THRESHOLD}

\* execution_agent, the QUBOConfig for n assets: target = max(2, min(n,
\* int(n * risk_tolerance) + 1)), lambda_risk = max(0.1, 1 - risk_tolerance);
\* risk_tolerance is in percent (at most 90, where lambda_risk is 0.1)
qubo_config(n, risk_tolerance) ==
    LET t == Min(n, (n * risk_tolerance) \div 100 + 1)
    IN [lambda_return |-> 2,
        lambda_risk |-> (2 * (100 - risk_tolerance)) \div 100,
        lambda_budget |-> 4,
        target_assets |-> IF t < 2 THEN 2 ELSE t]

\* execution_agent on the mock universe at risk_tolerance 0.5: the results
\* solve can return, in the units of the guardrails, with a solver time at
\* or above the limit
MockResults ==
    LET u == make_test_universe
        n == Len(u.mu)
        cfg == qubo_config(n, 50)
        Directions == {[i \in 1..n |-> 1], [i \in 1..n |-> i],
                       [i \in 1..n |-> IF i = 1 THEN 3 ELSE 0]}
        Convert(r, t) ==
            [feasible |-> r.feasible,
             weights |-> [s \in {u.symbols[i] : i \in 1..n} |->
                            LET i == CHOOSE j \in 1..n : u.symbols[j] = s
                            IN (r.weights[i] * 100) \div WeightScale],
             allocation |-> [s \in {u.symbols[i] : i \in 1..n} |->
                               r.allocation[CHOOSE j \in 1..n : u.symbols[j] = s]],
             expected_risk |-> r.expected_risk,
             expected_return |-> r.expected_return \div 100,
             solver_time_s |-> t]
    IN {Convert(r, t) :
          r \in UNION {solve(adjusted_returns(u.mu, 50, eps), u.cov, u.max_weight, cfg, raw) :
                         eps \in NoiseDraws(n), raw \in Directions},
          t \in {MAX_SOLVER_TIME_S, MAX_SOLVER_TIME_S + 1}}

\* market_agent raises before it stores assets and covariance:
\* (state.risk_tolerance - 0.5) is a TypeError on a value that is no number
market_agent_raises(st) == st.risk_tolerance = "other"

\* execution_agent raises before the optimizer is built:
\* int(len(state.assets) * state.risk_tolerance) is a ValueError on NaN
execution_agent_raises(st) == st.market # "none" /\ st.risk_tolerance = "nan"

\* market_agent: the universe comes from CoinGecko, or from the mock
\* universe when use_mock is set or the fetch fails (real says which)
market_agent(st, real) ==
    [st EXCEPT !.market = IF ~st.use_mock /\ real THEN "real" ELSE "mock"]

\* execution_agent: without market data the run is marked as an error;
\* otherwise the optimizer's result and the slippage estimates are stored
execution_agent(st, opt, slip) ==
    IF st.market = "none"
    THEN [st EXCEPT !.status = "error"]
    ELSE [st EXCEPT !.optimization_result = Some(opt),
                    !.slippage_estimates = slip]

\* a risk_agent that computes the approval reasons before it looks at the
\* checks and stores them whatever the outcome
risk_agent_reasons_first(st) ==
    IF st.optimization_result = None
    THEN [st EXCEPT !.risk_approved = FALSE, !.status = "error"]
    ELSE LET opt == st.optimization_result[1]
             checks == RiskChecks(opt, st.slippage_estimates)
             all_passed == \A n \in DOMAIN checks : checks[n]
             reasons == ApprovalReasons(opt)
         IN [st EXCEPT !.risk_checks = checks,
                       !.risk_approved = all_passed,
                       !.approval_reasons = reasons,
                       !.requires_approval = (reasons # {}),
                       !.status = IF ~all_passed THEN "rejected"
                                  ELSE IF reasons # {} THEN "pending_approval"
                                  ELSE "approved"]

\* risk_agent
risk_agent(st) ==
    IF st.optimization_result = None
    THEN [st EXCEPT !.risk_approved = FALSE, !.status = "error"]
    ELSE LET opt == st.optimization_result[1]
             checks == RiskChecks(opt, st.slippage_estimates)
             all_passed == \A n \in DOMAIN checks : checks[n]
             reasons == ApprovalReasons(opt)
         IN IF all_passed
            THEN IF reasons # {}
                 THEN [st EXCEPT !.risk_checks = checks,
                                 !.risk_approved = all_passed,
                                 !.status = "pending_approval",
                                 !.requires_approval = TRUE,
                                 !.approval_reasons = reasons]
                 ELSE [st EXCEPT !.risk_checks = checks,
                                 !.risk_approved = all_passed,
                                 !.status = "approved"]
            ELSE [st EXCEPT !.risk_checks = checks,
                            !.risk_approved = all_passed,
                            !.status = "rejected"]

\* a graph whose execution node leads straight to END
NextNodeSkipsRisk(node) ==
    CASE node = "market_agent" -> "execution_agent"
      [] node = "execution_agent" -> "END"
      [] node = "risk_agent" -> "END"

\* build_agent_graph: the edges
NextNode(node) ==
    CASE node = "market_agent" -> "execution_agent"
      [] node = "execution_agent" -> "risk_agent"
      [] node = "risk_agent" -> "END"

\* set_entry_point
EntryPoint == "market_agent"

(***************************************************************************)
(* Agent pipeline: runs  (run_pipeline, and direct calls of risk_agent as  *)
(* in safety_tests._run_risk_check and attack_demo)                        *)
(***************************************************************************)
PipelineOnly == UNCHANGED <<rl_vars, api_vars, ext_vars>>

PipelineInit ==
    /\ pl_pc = "idle"
    /\ pstate = NewPipelineState(FALSE)
    /\ entry = "none"
    /\ trace = <<>>

\* run_pipeline: the initial state enters the graph
RunPipeline ==
    /\ pl_pc = "idle"
    /\ \E use_mock \in BOOLEAN, rt \in RiskToleranceKinds :
          pstate' = [NewPipelineState(use_mock) EXCEPT !.risk_tolerance = rt]
    /\ entry' = "pipeline"
    /\ trace' = <<>>
    /\ pl_pc' = EntryPoint
    /\ PipelineOnly

\* _run_risk_check: risk_agent called on a fresh state that carries the
\* caller's optimization result (or none)
CallRiskAgent ==
    /\ pl_pc = "idle"
    /\ \E o \in {Some(x) : x \in OptResults} \cup {None}, slip \in SlippageMaps :
          pstate' = [NewPipelineState(FALSE) EXCEPT !.optimization_result = o,
                                                    !.slippage_estimates = slip]
    /\ entry' = "direct"
    /\ trace' = <<>>
    /\ pl_pc' = "risk_agent"
    /\ PipelineOnly

MarketAgent ==
    /\ pl_pc = "market_agent"
    /\ ~market_agent_raises(pstate)
    /\ \E real \in BOOLEAN : pstate' = market_agent(pstate, real)
    /\ trace' = Append(trace, "market_agent")
    /\ pl_pc' = NextNode("market_agent")
    /\ UNCHANGED entry
    /\ PipelineOnly

\* market_agent raised: no handler in the agent, in the graph or in
\* run_pipeline catches the exception
MarketAgentRaises ==
    /\ pl_pc = "market_agent"
    /\ market_agent_raises(pstate)
    /\ trace' = Append(trace, "market_agent")
    /\ pl_pc' = "raised"
    /\ UNCHANGED <<pstate, entry>>
    /\ PipelineOnly

ExecutionAgent ==
    /\ pl_pc = "execution_agent"
    /\ ~execution_agent_raises(pstate)
    /\ \/ \E opt \in OptResults, slip \in SlippageMaps :
             pstate' = execution_agent(pstate, opt, slip)
       \/ /\ pstate.market = "mock"
          /\ \E opt \in MockResults, slip \in SlippageMaps :
                pstate' = execution_agent(pstate, opt, slip)
    /\ trace' = Append(trace, "execution_agent")
    /\ pl_pc' = NextNode("execution_agent")
    /\ UNCHANGED entry
    /\ PipelineOnly

\* execution_agent raised, likewise uncaught
ExecutionAgentRaises ==
    /\ pl_pc = "execution_agent"
    /\ execution_agent_raises(pstate)
    /\ trace' = Append(trace, "execution_agent")
    /\ pl_pc' = "raised"
    /\ UNCHANGED <<pstate, entry>>
    /\ PipelineOnly

RiskAgent ==
    /\ pl_pc = "risk_agent"
    /\ pstate' = risk_agent(pstate)
    /\ trace' = Append(trace, "risk_agent")
    /\ pl_pc' = IF entry = "pipeline" THEN NextNode("risk_agent") ELSE "END"
    /\ UNCHANGED entry
    /\ PipelineOnly

\* the final state is returned to the caller
ReturnState ==
    /\ pl_pc = "END"
    /\ pl_pc' = "idle"
    /\ pstate' = NewPipelineState(FALSE)
    /\ entry' = "none"
    /\ trace' = <<>>
    /\ PipelineOnly

\* graph.invoke raised and run_pipeline passes the exception on to its
\* caller; no state is returned
RaiseToCaller ==
    /\ pl_pc = "raised"
    /\ pl_pc' = "idle"
    /\ pstate' = NewPipelineState(FALSE)
    /\ entry' = "none"
    /\ trace' = <<>>
    /\ PipelineOnly

NextPipeline ==
    \/ RunPipeline
    \/ CallRiskAgent
    \/ MarketAgent
    \/ MarketAgentRaises
    \/ ExecutionAgent
    \/ ExecutionAgentRaises
    \/ RiskAgent
    \/ ReturnState
    \/ RaiseToCaller

(***************************************************************************)
(* HTTP API: /optimize and /approve  (api.py 77-78, 148-355, 474-523)      *)
(* Handlers are coroutines on one event loop: a handler runs alone from    *)
(* one await to the next, and other requests run while it awaits.          *)
(***************************************************************************)
OptReqs == 1..NumOptimize
AppReqs == 1..NumApprove

\* str(uuid.uuid4())[:8]: 32 bits of a random uuid; two plans can draw the
\* same value
ApprovalIds == 1..NumIds

\* the action field of an /approve request: the two documented values and
\* some other string
ApprovalActions == {"approve", "reject", "hold"}

\* What the handler gets back from run_pipeline: the final status and
\* whether an optimization result is attached.  risk_agent ends in approved,
\* pending_approval or rejected on a state with a result and in error on a
\* state without one.
PipelineOutcomes ==
    {[status |-> "approved", has_opt |-> TRUE],
     [status |-> "pending_approval", has_opt |-> TRUE],
     [status |-> "rejected", has_opt |-> TRUE],
     [status |-> "error", has_opt |-> FALSE]}

\* a handler that hands every plan to the transactor
BranchAlwaysSubmit(status, has_opt) == "submit"

\* optimize: the if / elif chain on state.status after the pipeline
OptimizeBranch(status, has_opt) ==
    CASE status = "approved" /\ has_opt -> "submit"
      [] status = "pending_approval" /\ has_opt -> "store"
      [] status = "rejected" -> "log_rejected"
      [] OTHER -> "none"

\* pending_approvals[approval_id] = {...}
StoreEntry(store, id, e) ==
    [i \in DOMAIN store \cup {id} |-> IF i = id THEN e ELSE store[i]]

\* a lookup that leaves the entry in the store
PopKeepsEntry(store, id) == store

\* pending_approvals.pop(approval_id): the store afterwards
PopEntry(store, id) == [i \in DOMAIN store \ {id} |-> store[i]]

NewOptReq == [pc |-> "new", dry_run |-> FALSE, status |-> "none", has_opt |-> FALSE]
NewAppReq == [pc |-> "new", approval_id |-> 0, action |-> "none", tx |-> "none", entry |-> None,
              result |-> "none"]

Bump(n) == IF n < 2 THEN n + 1 ELSE 2

ApiOnly == UNCHANGED <<rl_vars, pl_vars, ext_vars>>

ApiInit ==
    /\ pending_approvals = EmptyMap
    /\ last_result = None
    /\ opt_req = [r \in OptReqs |-> NewOptReq]
    /\ app_req = [a \in AppReqs |-> NewAppReq]
    /\ txs = [r \in OptReqs |-> [optimize |-> 0, approve |-> 0]]
    /\ resolved = {}

\* optimize: the request arrives; the handler logs and awaits the broadcasts
OptimizeReceive(r) ==
    /\ opt_req[r].pc = "new"
    /\ \E dry_run \in BOOLEAN :
          opt_req' = [opt_req EXCEPT ![r].pc = "pipeline", ![r].dry_run = dry_run]
    /\ UNCHANGED <<pending_approvals, last_result, app_req, txs, resolved>>
    /\ ApiOnly

\* optimize: run_pipeline returns; the handler awaits the broadcast of the logs
OptimizePipeline(r) ==
    /\ opt_req[r].pc = "pipeline"
    /\ \E out \in PipelineOutcomes :
          opt_req' = [opt_req EXCEPT ![r].pc = "branch",
                                     ![r].status = out.status,
                                     ![r].has_opt = out.has_opt]
    /\ UNCHANGED <<pending_approvals, last_result, app_req, txs, resolved>>
    /\ ApiOnly

\* optimize: the branch on the status, up to its first await (or, on the
\* path without one, up to the response)
OptimizeDecide(r) ==
    /\ opt_req[r].pc = "branch"
    /\ LET branch == OptimizeBranch(opt_req[r].status, opt_req[r].has_opt)
       IN CASE branch = "submit" ->
                 /\ opt_req' = [opt_req EXCEPT ![r].pc = "submit"]
                 /\ UNCHANGED <<pending_approvals, last_result>>
            [] branch = "store" ->
                 /\ \E id \in ApprovalIds :
                       pending_approvals' =
                          StoreEntry(pending_approvals, id,
                                     [plan |-> r, dry_run |-> opt_req[r].dry_run])
                 /\ opt_req' = [opt_req EXCEPT ![r].pc = "respond"]
                 /\ UNCHANGED last_result
            [] branch = "log_rejected" ->
                 /\ opt_req' = [opt_req EXCEPT ![r].pc = "respond"]
                 /\ UNCHANGED <<pending_approvals, last_result>>
            [] OTHER ->
                 /\ opt_req' = [opt_req EXCEPT ![r].pc = "done"]
                 /\ last_result' = Some(r)
                 /\ UNCHANGED pending_approvals
    /\ UNCHANGED <<app_req, txs, resolved>>
    /\ ApiOnly

\* optimize: SuiTransactor()._dry_run or .execute_rebalance, then the
\* broadcast of the result is awaited
OptimizeSubmit(r) ==
    /\ opt_req[r].pc = "submit"
    /\ txs' = [txs EXCEPT ![r].optimize = Bump(@)]
    /\ opt_req' = [opt_req EXCEPT ![r].pc = "respond"]
    /\ UNCHANGED <<pending_approvals, last_result, app_req, resolved>>
    /\ ApiOnly

\* optimize: the response is built and cached in last_result
OptimizeRespond(r) ==
    /\ opt_req[r].pc = "respond"
    /\ opt_req' = [opt_req EXCEPT ![r].pc = "done"]
    /\ last_result' = Some(r)
    /\ UNCHANGED <<pending_approvals, app_req, txs, resolved>>
    /\ ApiOnly

\* an /approve that executes for the action "approve" only
ApproveBranchOnlyApprove(action) == IF action = "approve" THEN "execute" ELSE "respond"

\* approve_trade: if req.action == "reject" the handler answers at once,
\* otherwise it goes on to execute the trade
ApproveBranch(action) == IF action = "reject" THEN "respond" ELSE "execute"

\* approve_trade up to its first await: the membership test, the pop, and
\* the branch on the action
ApproveResolve(a) ==
    /\ app_req[a].pc = "new"
    /\ \E id \in ApprovalIds, action \in ApprovalActions :
          IF id \notin DOMAIN pending_approvals
          THEN /\ app_req' = [app_req EXCEPT ![a] =
                                [pc |-> "done", approval_id |-> id, action |-> action,
                                 entry |-> None, result |-> "not_found",
                                 tx |-> "none"]]
               /\ UNCHANGED <<pending_approvals, resolved>>
          ELSE LET e == pending_approvals[id]
               IN /\ pending_approvals' = PopEntry(pending_approvals, id)
                  /\ resolved' = resolved \cup {e.plan}
                  /\ app_req' = [app_req EXCEPT ![a] =
                                   [pc |-> ApproveBranch(action),
                                    approval_id |-> id, action |-> action,
                                    entry |-> Some(e),
                                    result |-> IF ApproveBranch(action) = "respond"
                                               THEN "rejected" ELSE "approved",
                                    tx |-> "none"]]
    /\ UNCHANGED <<last_result, opt_req, txs>>
    /\ ApiOnly

\* approve_trade: the transactor call for the entry that was taken out:
\* _dry_run or execute_rebalance, as orig_req.get("dry_run", True) says, on
\* the allocation and weights of the stored state
ApproveExecute(a) ==
    /\ app_req[a].pc = "execute"
    /\ txs' = [txs EXCEPT ![app_req[a].entry[1].plan].approve = Bump(@)]
    /\ app_req' = [app_req EXCEPT ![a].pc = "respond",
                                  ![a].tx = IF app_req[a].entry[1].dry_run
                                            THEN "dry_run" ELSE "execute_rebalance"]
    /\ UNCHANGED <<pending_approvals, last_result, opt_req, resolved>>
    /\ ApiOnly

\* approve_trade: the answer is returned
ApproveRespond(a) ==
    /\ app_req[a].pc = "respond"
    /\ app_req' = [app_req EXCEPT ![a].pc = "done"]
    /\ UNCHANGED <<pending_approvals, last_result, opt_req, txs, resolved>>
    /\ ApiOnly

NextApi ==
    \/ \E r \in OptReqs : OptimizeReceive(r)
    \/ \E r \in OptReqs : OptimizePipeline(r)
    \/ \E r \in OptReqs : OptimizeDecide(r)
    \/ \E r \in OptReqs : OptimizeSubmit(r)
    \/ \E r \in OptReqs : OptimizeRespond(r)
    \/ \E a \in AppReqs : ApproveResolve(a)
    \/ \E a \in AppReqs : ApproveExecute(a)
    \/ \E a \in AppReqs : ApproveRespond(a)

(***************************************************************************)
(* Relayer: demo mode  (Relayer.__init__ 364-374, run 489-491,             *)
(* _demo_loop 452-467)                                                     *)
(***************************************************************************)
MaxDemoCycles == 6

\* what the environment and the command line can hold
Configs ==
    [force_demo : BOOLEAN,
     package_id : {"", "0x...", "0xabc"},
     task_object_id : {"", "0x...", "0xdef"}]

\* what an earlier process can have left in the cursor file
CursorMaps ==
    {c \in [EventTypes -> Cursors] :
        \A et \in EventTypes : c[et] = Null \/ c[et].txDigest[1] = et}

CursorFiles ==
    {MissingFile} \cup {save_cursors(c) : c \in CursorMaps}
                  \cup {CorruptFile(c) : c \in CursorMaps}

\* python relayer.py with a configuration that makes demo_mode true:
\* Relayer() loads the cursors, run() sets up the signal handlers and
\* awaits _demo_loop; no health task is created and no query is sent
StartDemo ==
    /\ rl_pc = "off"
    /\ demo_mode(config)
    /\ lifetime' = lifetime + 1
    /\ running' = TRUE
    /\ cursors' = load_cursors(cursor_file)
    /\ processed' = {}
    /\ rl_pc' = "demo"
    /\ demo_cycle' = 0
    /\ UNCHANGED <<et_idx, cursor_file, consecutive_errors, current_backoff,
                   sleep_for, health, rpc_client, signalled, handled,
                   handled_before, failed, replays, trims, skipped,
                   last_added, page, calls, cyc, config, qrng>>
    /\ UNCHANGED <<pl_vars, api_vars, lib_call, liq_vars, poll, ws_clients, ws_conn, broadcast>>

\* _demo_loop: "while self.running" holds: cycle += 1, and every fifth
\* cycle get_quantum_random is awaited before the sleep
DemoCycle ==
    /\ rl_pc = "demo"
    /\ running
    /\ demo_cycle < MaxDemoCycles
    /\ demo_cycle' = demo_cycle + 1
    /\ rl_pc' = IF (demo_cycle + 1) % 5 = 0 THEN "demo_qrng" ELSE "demo_sleep"
    /\ sleep_for' = IF (demo_cycle + 1) % 5 = 0 THEN sleep_for ELSE POLL_INTERVAL_S
    /\ UNCHANGED <<et_idx, running, cursors, processed, cursor_file,
                   consecutive_errors, current_backoff, health, rpc_client,
                   signalled, lifetime, handled, handled_before, failed,
                   replays, trims, skipped, last_added, page, calls, cyc,
                   config, qrng>>
    /\ UNCHANGED <<pl_vars, api_vars, lib_call, liq_vars, poll, ws_clients, ws_conn, broadcast>>

\* _demo_loop: get_quantum_random returned a number or None (it catches its
\* own failures); the number is only logged; then sleep(POLL_INTERVAL_S)
DemoQrng ==
    /\ rl_pc = "demo_qrng"
    /\ \E out \in {"ok", "failed"} : qrng' = out
    /\ rl_pc' = "demo_sleep"
    /\ sleep_for' = POLL_INTERVAL_S
    /\ UNCHANGED <<et_idx, running, cursors, processed, cursor_file,
                   consecutive_errors, current_backoff, health, rpc_client,
                   signalled, lifetime, handled, handled_before, failed,
                   replays, trims, skipped, last_added, page, calls, cyc,
                   config, demo_cycle>>
    /\ UNCHANGED <<pl_vars, api_vars, lib_call, liq_vars, poll, ws_clients, ws_conn, broadcast>>

\* _demo_loop: the sleep returned
DemoWake ==
    /\ rl_pc = "demo_sleep"
    /\ rl_pc' = "demo"
    /\ sleep_for' = 0
    /\ UNCHANGED <<et_idx, running, cursors, processed, cursor_file,
                   consecutive_errors, current_backoff, health, rpc_client,
                   signalled, lifetime, handled, handled_before, failed,
                   replays, trims, skipped, last_added, page, calls, cyc,
                   demo_vars>>
    /\ UNCHANGED <<pl_vars, api_vars, lib_call, liq_vars, poll, ws_clients, ws_conn, broadcast>>

\* _demo_loop: "while self.running" fails and run returns right after it:
\* the finally block of the live loop is not reached
DemoExit ==
    /\ rl_pc = "demo"
    /\ ~running
    /\ rl_pc' = "stopped"
    /\ UNCHANGED <<et_idx, running, cursors, processed, cursor_file,
                   consecutive_errors, current_backoff, sleep_for, health,
                   rpc_client, signalled, lifetime, handled, handled_before,
                   failed, replays, trims, skipped, last_added, page, calls,
                   cyc, demo_vars>>
    /\ UNCHANGED <<pl_vars, api_vars, lib_call, liq_vars, poll, ws_clients, ws_conn, broadcast>>

\* one process under any configuration: the demo loop, or the start of the
\* live loop (whose first query is then in flight)
NextDemo ==
    \/ StartDemo
    \/ DemoCycle
    \/ DemoQrng
    \/ DemoWake
    \/ DemoExit
    \/ Shutdown
    \/ Start

DemoInit ==
    /\ \E file \in CursorFiles : RelayerInitWith(file)
    /\ PipelineInit
    /\ ApiInit
    /\ config \in Configs
    /\ demo_cycle = 0
    /\ qrng = "none"
    /\ lib_call = NoCall
    /\ LiquidityInit
    /\ poll = [pc |-> "query", i |-> 1, next_cursor |-> Null]
    /\ WsInit

SpecDemo == DemoInit /\ [][NextDemo]_vars

Init == RelayerInit /\ PipelineInit /\ ApiInit /\ ExtInit

SpecRelayer == Init /\ [][NextRelayer]_vars

SpecPollSteps == Init /\ [][NextPollSteps]_vars

SpecPipeline == Init /\ [][NextPipeline]_vars

SpecApi == Init /\ [][NextApi]_vars

(***************************************************************************)
(* Slippage model (core/slippage.py)                                       *)
(***************************************************************************)
MIST_PER_SUI == 1000000000

\* estimate_market_impact(symbol, order_size_usd, daily_volume_usd, params,
\* sui_price_usd).  Fixed point: USD amounts and the SUI price are in cents,
\* fractions and percentages in units of 1/MoneyScale; beta is 1/p.root
\* (root 1: linear impact, root 2: square-root impact).  A daily volume of 0
\* stands for None and 0, which select the mock volume of the symbol
\* (at least 3e8 USD, so that an order of a few USD is 0 units of it).
estimate_market_impact(order_size_usd, daily_volume_usd, p, sui_price_usd) ==
    LET fraction == IF daily_volume_usd = 0 THEN 0
                    ELSE IF daily_volume_usd > 0
                         THEN (order_size_usd * MoneyScale) \div daily_volume_usd
                         ELSE MoneyScale
        power == IF p.root = 1 THEN fraction
                 ELSE 10 * (CHOOSE r \in 0..MoneyScale :
                               r * r <= fraction * 100 /\ fraction * 100 < (r + 1) * (r + 1))
        raw_impact == (p.alpha * power) \div MoneyScale
        safety == p.safety_margin_bps
        total_slip == raw_impact + safety
        min_out_usd == (order_size_usd * (MoneyScale - total_slip)) \div MoneyScale
        min_out_mist == IF sui_price_usd > 0
                        THEN min_out_usd * (MIST_PER_SUI \div sui_price_usd)
                        ELSE 0
    IN [volume_fraction |-> fraction,
        raw_impact_pct |-> raw_impact,
        safety_margin_pct |-> safety,
        total_slippage_pct |-> total_slip,
        min_out_usd |-> min_out_usd,
        min_out_mist |-> IF min_out_mist > 0 THEN min_out_mist ELSE 0,
        exceeds_max_impact |-> raw_impact > p.max_impact_pct]

\* estimate_market_impact called for an order of 0, 1 or 2 USD against a
\* daily volume that is absent, negative, tiny or large
ImpactCall ==
    /\ lib_call = NoCall
    /\ \E order \in {0, 100, 200}, volume \in {0, -100, 10, 100, 20000},
          price \in {-100, 0, 100, 200},
          p \in [alpha : {500, 1000}, root : {1, 2},
                 safety_margin_bps : {50}, max_impact_pct : {500}] :
          LibCall([fn |-> "estimate_market_impact",
                   inp |-> [order_size_usd |-> order, daily_volume_usd |-> volume,
                            params |-> p, sui_price_usd |-> price],
                   out |-> estimate_market_impact(order, volume, p, price)])

(***************************************************************************)
(* Move abort codes (core/error_map.py)                                    *)
(***************************************************************************)
\* ERROR_MAP whose entry 103 is a copy of entry 102 that was not edited
ERROR_MAP_copied_entry ==
    (0 :> [code |-> 0, constant |-> "EInvalidAgent", module |-> "portfolio", severity |-> "critical",
         frontend_message |-> "Security error: agent not authorized.",
         message_len |-> 37])
    @@
    (1 :> [code |-> 1, constant |-> "EAgentFrozen", module |-> "portfolio", severity |-> "critical",
         frontend_message |-> "Agent frozen: admin has blocked this agent.",
         message_len |-> 43])
    @@
    (2 :> [code |-> 2, constant |-> "ECooldownActive", module |-> "portfolio", severity |-> "warning",
         frontend_message |-> "Quantum cooldown: please wait 60 seconds.",
         message_len |-> 41])
    @@
    (3 :> [code |-> 3, constant |-> "EVolumeExceeded", module |-> "portfolio", severity |-> "error",
         frontend_message |-> "Risk limit exceeded: daily volume exhausted.",
         message_len |-> 44])
    @@
    (4 :> [code |-> 4, constant |-> "EDrawdownExceeded", module |-> "portfolio", severity |-> "error",
         frontend_message |-> "Drawdown protection: trade would exceed maximum loss.",
         message_len |-> 53])
    @@
    (5 :> [code |-> 5, constant |-> "EInsufficientBalance", module |-> "portfolio", severity |-> "error",
         frontend_message |-> "Insufficient portfolio balance.",
         message_len |-> 31])
    @@
    (6 :> [code |-> 6, constant |-> "EPaused", module |-> "portfolio", severity |-> "critical",
         frontend_message |-> "Portfolio paused: all trades are blocked.",
         message_len |-> 41])
    @@
    (7 :> [code |-> 7, constant |-> "ESlippageExceeded", module |-> "portfolio", severity |-> "warning",
         frontend_message |-> "Slippage too high: minimum output not reached.",
         message_len |-> 46])
    @@
    (8 :> [code |-> 8, constant |-> "EAtomicRebalanceFailed", module |-> "portfolio", severity |-> "error",
         frontend_message |-> "Atomic rebalance failed: total value check failed.",
         message_len |-> 50])
    @@
    (9 :> [code |-> 9, constant |-> "ESwapCountMismatch", module |-> "portfolio", severity |-> "error",
         frontend_message |-> "Invalid swap configuration: lengths do not match.",
         message_len |-> 49])
    @@
    (10 :> [code |-> 10, constant |-> "EPostRebalanceDrawdown", module |-> "portfolio", severity |-> "critical",
         frontend_message |-> "Security limit: portfolio value after rebalance too low.",
         message_len |-> 56])
    @@
    (11 :> [code |-> 11, constant |-> "EProtocolNotWhitelisted", module |-> "portfolio", severity |-> "critical",
         frontend_message |-> "Protocol not whitelisted: target address not in whitelist.",
         message_len |-> 58])
    @@
    (100 :> [code |-> 100, constant |-> "ESlippageTooHigh", module |-> "oracle", severity |-> "error",
         frontend_message |-> "Oracle slippage: price deviation too high (>1%).",
         message_len |-> 48])
    @@
    (101 :> [code |-> 101, constant |-> "EPriceStale", module |-> "oracle", severity |-> "error",
         frontend_message |-> "Oracle price stale: price feed too old.",
         message_len |-> 39])
    @@
    (102 :> [code |-> 102, constant |-> "EPriceNegative", module |-> "oracle", severity |-> "critical",
         frontend_message |-> "Invalid oracle price: price is zero or negative.",
         message_len |-> 48])
    @@
    (103 :> [code |-> 102, constant |-> "EPriceNegative", module |-> "oracle", severity |-> "critical",
         frontend_message |-> "Invalid oracle price: price is zero or negative.",
         message_len |-> 48])

\* ERROR_MAP: the registry of Move abort codes; message_len is the length of
\* frontend_message
ERROR_MAP ==
    (0 :> [code |-> 0, constant |-> "EInvalidAgent", module |-> "portfolio", severity |-> "critical",
         frontend_message |-> "Security error: agent not authorized.",
         message_len |-> 37])
    @@
    (1 :> [code |-> 1, constant |-> "EAgentFrozen", module |-> "portfolio", severity |-> "critical",
         frontend_message |-> "Agent frozen: admin has blocked this agent.",
         message_len |-> 43])
    @@
    (2 :> [code |-> 2, constant |-> "ECooldownActive", module |-> "portfolio", severity |-> "warning",
         frontend_message |-> "Quantum cooldown: please wait 60 seconds.",
         message_len |-> 41])
    @@
    (3 :> [code |-> 3, constant |-> "EVolumeExceeded", module |-> "portfolio", severity |-> "error",
         frontend_message |-> "Risk limit exceeded: daily volume exhausted.",
         message_len |-> 44])
    @@
    (4 :> [code |-> 4, constant |-> "EDrawdownExceeded", module |-> "portfolio", severity |-> "error",
         frontend_message |-> "Drawdown protection: trade would exceed maximum loss.",
         message_len |-> 53])
    @@
    (5 :> [code |-> 5, constant |-> "EInsufficientBalance", module |-> "portfolio", severity |-> "error",
         frontend_message |-> "Insufficient portfolio balance.",
         message_len |-> 31])
    @@
    (6 :> [code |-> 6, constant |-> "EPaused", module |-> "portfolio", severity |-> "critical",
         frontend_message |-> "Portfolio paused: all trades are blocked.",
         message_len |-> 41])
    @@
    (7 :> [code |-> 7, constant |-> "ESlippageExceeded", module |-> "portfolio", severity |-> "warning",
         frontend_message |-> "Slippage too high: minimum output not reached.",
         message_len |-> 46])
    @@
    (8 :> [code |-> 8, constant |-> "EAtomicRebalanceFailed", module |-> "portfolio", severity |-> "error",
         frontend_message |-> "Atomic rebalance failed: total value check failed.",
         message_len |-> 50])
    @@
    (9 :> [code |-> 9, constant |-> "ESwapCountMismatch", module |-> "portfolio", severity |-> "error",
         frontend_message |-> "Invalid swap configuration: lengths do not match.",
         message_len |-> 49])
    @@
    (10 :> [code |-> 10, constant |-> "EPostRebalanceDrawdown", module |-> "portfolio", severity |-> "critical",
         frontend_message |-> "Security limit: portfolio value after rebalance too low.",
         message_len |-> 56])
    @@
    (11 :> [code |-> 11, constant |-> "EProtocolNotWhitelisted", module |-> "portfolio", severity |-> "critical",
         frontend_message |-> "Protocol not whitelisted: target address not in whitelist.",
         message_len |-> 58])
    @@
    (100 :> [code |-> 100, constant |-> "ESlippageTooHigh", module |-> "oracle", severity |-> "error",
         frontend_message |-> "Oracle slippage: price deviation too high (>1%).",
         message_len |-> 48])
    @@
    (101 :> [code |-> 101, constant |-> "EPriceStale", module |-> "oracle", severity |-> "error",
         frontend_message |-> "Oracle price stale: price feed too old.",
         message_len |-> 39])
    @@
    (102 :> [code |-> 102, constant |-> "EPriceNegative", module |-> "oracle", severity |-> "critical",
         frontend_message |-> "Invalid oracle price: price is zero or negative.",
         message_len |-> 48])
    @@
    (103 :> [code |-> 103, constant |-> "EInvalidOracleConfig", module |-> "oracle", severity |-> "error",
         frontend_message |-> "Invalid oracle configuration.",
         message_len |-> 29])

\* the longest prefix of the raw text that the fallback message shows
RAW_LIMIT == 200

\* _ABORT_PATTERNS[k].search(raw).  A text is a sequence of tokens
\* [k |-> kind, n |-> number]: the keywords of the patterns ("(" is part of
\* the keyword MoveAbort(), ")" and ",", a blank " " and a line break "nl"
\* (both whitespace), a run of digits "num" with its value n, and any other
\* character "x".  The result is the captured code as <<n>>, or <<>> when the
\* pattern matches nowhere.
PatternSearch(k, raw) ==
    LET N == Len(raw)
        IsNum(j) == j <= N /\ raw[j].k = "num"
        IsSpace(j) == j <= N /\ raw[j].k \in {" ", "nl"}
        \* MoveAbort\([^)]*,\s*(\d+)\) started at i with the comma at c:
        \* the position of the digits, or 0
        AfterComma(c) ==
            IF \E d \in (c + 1)..N :
                  /\ \A j \in (c + 1)..(d - 1) : IsSpace(j)
                  /\ IsNum(d) /\ d + 1 <= N /\ raw[d + 1].k = ")"
            THEN CHOOSE d \in (c + 1)..N :
                    /\ \A j \in (c + 1)..(d - 1) : IsSpace(j)
                    /\ IsNum(d) /\ d + 1 <= N /\ raw[d + 1].k = ")"
            ELSE 0
        Commas(i) == {c \in (i + 1)..N :
                        /\ raw[c].k = ","
                        /\ \A j \in (i + 1)..(c - 1) : raw[j].k # ")"
                        /\ AfterComma(c) # 0}
        \* keyword followed by [:\s]+ and digits (abort_code), by digits
        \* (Move abort ) or by .*? and digits (status_code, VMError)
        Digits(i) ==
            IF k = 2 THEN {d \in (i + 2)..N :
                              IsNum(d) /\ \A j \in (i + 1)..(d - 1) : IsSpace(j)}
            ELSE IF k = 3 THEN {d \in {i + 1} : IsNum(d)}
            ELSE {d \in (i + 1)..N :
                     IsNum(d) /\ \A j \in (i + 1)..(d - 1) : raw[j].k # "nl"}
        Keyword == IF k = 1 THEN "MoveAbort(" ELSE IF k = 2 THEN "abort_code"
                   ELSE IF k = 3 THEN "Move abort " ELSE IF k = 4 THEN "status_code"
                   ELSE "VMError"
        Starts == {i \in 1..N : raw[i].k = Keyword
                                /\ (IF k = 1 THEN Commas(i) ELSE Digits(i)) # {}}
        Least(S) == CHOOSE a \in S : \A b \in S : a <= b
        Greatest(S) == CHOOSE a \in S : \A b \in S : b <= a
    IN IF Starts = {} THEN <<>>
       ELSE IF k = 1 THEN <<raw[AfterComma(Greatest(Commas(Least(Starts))))].n>>
       ELSE <<raw[Least(Digits(Least(Starts)))].n>>

\* parse_abort_error that lets the last matching pattern win
parse_last_pattern(raw) ==
    LET Hits == {k \in 1..5 : PatternSearch(k, raw) # <<>>}
        code == PatternSearch(CHOOSE k \in Hits : \A h \in Hits : h <= k, raw)[1]
    IN IF Hits # {}
       THEN [is_move_abort |-> TRUE, code |-> <<code>>,
             mapped |-> IF code \in DOMAIN ERROR_MAP THEN <<ERROR_MAP[code]>> ELSE <<>>,
             frontend_message |->
                IF code \in DOMAIN ERROR_MAP
                THEN [text |-> ERROR_MAP[code].frontend_message, code |-> <<>>, raw |-> <<>>]
                ELSE [text |-> " Unknown error (code N)", code |-> <<code>>, raw |-> <<>>],
             raw_error |-> raw]
       ELSE [is_move_abort |-> FALSE, code |-> <<>>, mapped |-> <<>>,
             frontend_message |->
                [text |-> "Unexpected error: ", code |-> <<>>,
                 raw |-> SubSeq(raw, 1, IF Len(raw) < RAW_LIMIT THEN Len(raw) ELSE RAW_LIMIT)],
             raw_error |-> raw]

\* parse_abort_error(error): the patterns are searched in their order and the
\* first one that matches gives the code.  Optional fields are sequences of
\* length 0 (None) or 1; a message is its fixed text with the code or the
\* slice of the raw text that is formatted into it.
parse_abort_error(raw) ==
    LET Hits == {k \in 1..5 : PatternSearch(k, raw) # <<>>}
        code == PatternSearch(CHOOSE k \in Hits : \A h \in Hits : k <= h, raw)[1]
    IN IF Hits # {}
       THEN [is_move_abort |-> TRUE, code |-> <<code>>,
             mapped |-> IF code \in DOMAIN ERROR_MAP THEN <<ERROR_MAP[code]>> ELSE <<>>,
             frontend_message |->
                IF code \in DOMAIN ERROR_MAP
                THEN [text |-> ERROR_MAP[code].frontend_message, code |-> <<>>, raw |-> <<>>]
                ELSE [text |-> " Unknown error (code N)", code |-> <<code>>, raw |-> <<>>],
             raw_error |-> raw]
       ELSE [is_move_abort |-> FALSE, code |-> <<>>, mapped |-> <<>>,
             frontend_message |->
                [text |-> "Unexpected error: ", code |-> <<>>,
                 raw |-> SubSeq(raw, 1, IF Len(raw) < RAW_LIMIT THEN Len(raw) ELSE RAW_LIMIT)],
             raw_error |-> raw]

\* longest text made of arbitrary tokens
MaxTokens == 4

\* parse_abort_error(error) on the text str(error): every text of at most
\* MaxTokens tokens (two runs of digits are never adjacent), and texts without
\* any keyword around the length of RAW_LIMIT
ParseCall ==
    LET Alphabet == {[k |-> w, n |-> 0] :
                        w \in {"MoveAbort(", ")", ",", " ", "nl", "x", "abort_code",
                               "Move abort ", "status_code", "VMError"}}
                    \cup {[k |-> "num", n |-> c] : c \in {2, 104}}
        ErrorTexts ==
            {t \in UNION {[1..n -> Alphabet] : n \in 0..MaxTokens} :
                \A i \in 1..(Len(t) - 1) : ~(t[i].k = "num" /\ t[i + 1].k = "num")}
            \cup {[i \in 1..n |-> [k |-> "x", n |-> 0]] :
                     n \in {RAW_LIMIT - 1, RAW_LIMIT, RAW_LIMIT + 1}}
    IN /\ lib_call = NoCall
       /\ \E raw \in ErrorTexts :
             LibCall([fn |-> "parse_abort_error", inp |-> raw,
                      out |-> parse_abort_error(raw)])

\* market_agent and execution_agent executed twice on equal input states
\* (mock universe, the same risk_tolerance): each execution draws its own
\* noise; the expected returns it stores and the allocation the solver then
\* selects (for one and the same direction raw_w) are recorded
RunTwice ==
    /\ lib_call = NoCall
    /\ \E rt \in {0, 50} :
       \E e1 \in NoiseDraws(5), e2 \in NoiseDraws(5) :
          LET u == make_test_universe
              cfg == qubo_config(Len(u.mu), rt)
              raw == [i \in 1..Len(u.mu) |-> 1]
              m1 == adjusted_returns(u.mu, rt, e1)
              m2 == adjusted_returns(u.mu, rt, e2)
          IN \E r1 \in solve(m1, u.cov, u.max_weight, cfg, raw),
                r2 \in solve(m2, u.cov, u.max_weight, cfg, raw) :
                LibCall([fn |-> "run_twice",
                         inp |-> [risk_tolerance |-> rt, use_mock |-> TRUE],
                         out |-> <<[expected_return |-> m1, allocation |-> r1.allocation,
                                    weights |-> r1.weights],
                                   [expected_return |-> m2, allocation |-> r2.allocation,
                                    weights |-> r2.weights]>>])

\* run_relayer of the synchronous relayer (backend/relayer.py) over the
\* AgentRegistered events its fetches return, oldest first: the events for
\* which process_agent_registered_event answers True, that is, for which the
\* quantum RNG is triggered and select_winner called.  processed_events
\* holds event.get("id", {}).get("txDigest").
RECURSIVE run_relayer(_, _)
run_relayer(events, processed_events) ==
    IF events = <<>> THEN <<>>
    ELSE LET event == Head(events)
             event_id == event.txDigest
         IN IF event_id \in processed_events
            THEN run_relayer(Tail(events), processed_events)
            ELSE <<event>> \o run_relayer(Tail(events), processed_events \cup {event_id})

\* events fetched by the synchronous relayer in the model
MaxFetched == 3

\* the synchronous relayer started with an empty processed_events
RunRelayerCall ==
    /\ lib_call = NoCall
    /\ \E n \in 1..MaxFetched :
       \E events \in [1..n -> [txDigest : 1..2, eventSeq : 0..1]] :
          LibCall([fn |-> "run_relayer", inp |-> events,
                   out |-> run_relayer(events, {})])

\* get_quantum_random(shots): how the subprocess ended decides the value
\* returned and which counter of the metrics m is incremented.  run is
\* "spawn_error" (create_subprocess_exec raised), "timeout", "nonzero_exit",
\* "bad_output" (stdout is no JSON object) or "ok"; ones is counts.get("1", 0)
\* of an "ok" run, None when the JSON value of "1" is null.
get_quantum_random(run, ones, m) ==
    IF run = "ok"
    THEN [value |-> ones, rng_triggered |-> m.rng_triggered + 1,
          rng_failures |-> m.rng_failures]
    ELSE [value |-> None, rng_triggered |-> m.rng_triggered,
          rng_failures |-> m.rng_failures + 1]

\* a handler that takes a missing number as 0
handle_agent_registered_default_zero(run, ones, select_ok, m) ==
    LET q == get_quantum_random(run, ones, m)
    IN [ok |-> select_ok,
        select_winner |-> <<IF q.value = None THEN 0 ELSE q.value[1]>>,
        rng_triggered |-> q.rng_triggered, rng_failures |-> q.rng_failures]

\* handle_agent_registered: the value it returns, the arguments of its
\* call_select_winner calls, and the counters afterwards; select_ok is
\* what call_select_winner returns
handle_agent_registered(run, ones, select_ok, m) ==
    LET q == get_quantum_random(run, ones, m)
    IN IF q.value = None
       THEN [ok |-> FALSE, select_winner |-> <<>>,
             rng_triggered |-> q.rng_triggered, rng_failures |-> q.rng_failures]
       ELSE [ok |-> select_ok, select_winner |-> <<q.value[1]>>,
             rng_triggered |-> q.rng_triggered, rng_failures |-> q.rng_failures]

HandleAgentRegisteredCall ==
    /\ lib_call = NoCall
    /\ \E run \in {"spawn_error", "timeout", "nonzero_exit", "bad_output", "ok"},
          ones \in {None} \cup {Some(n) : n \in {0, 1, 57, 100}},
          select_ok \in BOOLEAN,
          m \in [rng_triggered : 0..2, rng_failures : 0..2] :
          LibCall([fn |-> "handle_agent_registered",
                   inp |-> [run |-> run, ones |-> ones, select_ok |-> select_ok,
                            metrics |-> m],
                   out |-> handle_agent_registered(run, ones, select_ok, m)])

NextLib ==
    \/ SolveCall
    \/ BuildCall
    \/ ImpactCall
    \/ ParseCall
    \/ RunTwice
    \/ RunRelayerCall
    \/ HandleAgentRegisteredCall

SpecLib == Init /\ [][NextLib]_vars

(***************************************************************************)
(* Liquidity oracle (core/liquidity.py)                                    *)
(* Times are whole seconds; position limits are held as integer percent.   *)
(***************************************************************************)
CACHE_TTL_S == 30

\* the clock of the model stops here
MaxClock == 60

\* CETUS_POOLS: the pool names that have a pool id
CETUS_POOLS == {"SUI/USDC", "SUI/USDT"}

\* POSITION_LIMITS
POSITION_LIMITS == [deep |-> 40, medium |-> 30, thin |-> 20, unknown |-> 25]

\* get_dynamic_position_limit(pool_name), called dt seconds after the last
\* call; tier is what fetch_pool_liquidity would find ("unknown" when the
\* RPC fails: fetch_pool_liquidity catches every exception).  A name
\* without a pool id is answered with the "unknown" limit at once.
GetDynamicPositionLimit ==
    /\ \E pool_name \in CETUS_POOLS \cup {"OTHER"}, dt \in {0, 10, 20, 30},
          tier \in {"deep", "thin", "unknown"} :
          /\ now + dt <= MaxClock
          /\ now' = now + dt
          /\ IF pool_name \notin CETUS_POOLS
             THEN /\ limit_call' = [fn |-> "get_dynamic_position_limit",
                                    pool_name |-> pool_name, source |-> "none",
                                    limit |-> POSITION_LIMITS["unknown"]]
                  /\ UNCHANGED <<liquidity_cache, cache_ts>>
             ELSE IF pool_name \in DOMAIN liquidity_cache /\ (now' - cache_ts) < CACHE_TTL_S
             THEN /\ limit_call' = [fn |-> "get_dynamic_position_limit",
                                    pool_name |-> pool_name, source |-> "cache",
                                    limit |-> POSITION_LIMITS[liquidity_cache[pool_name].tier]]
                  /\ UNCHANGED <<liquidity_cache, cache_ts>>
             ELSE /\ liquidity_cache' =
                        (pool_name :> [tier |-> tier, timestamp |-> now'])
                        @@ liquidity_cache
                  /\ cache_ts' = now'
                  /\ limit_call' = [fn |-> "get_dynamic_position_limit",
                                    pool_name |-> pool_name, source |-> "fetch",
                                    limit |-> POSITION_LIMITS[tier]]
    /\ UNCHANGED <<rl_vars, pl_vars, api_vars, demo_vars, lib_call, poll,
                   ws_clients, ws_conn, broadcast>>

SpecLiquidity == Init /\ [][GetDynamicPositionLimit]_vars

(***************************************************************************)
(* HTTP API: WebSocket clients and broadcast_log  (api.py 124-133,         *)
(* 546-586).  Handlers and broadcasts are coroutines on one event loop:    *)
(* each runs alone from one await to the next.                             *)
(***************************************************************************)
\* websocket_logs: accept, then ws_clients.append(websocket)
WebsocketConnect(c) ==
    /\ ws_conn[c] = "new"
    /\ ws_clients' = Append(ws_clients, c)
    /\ ws_conn' = [ws_conn EXCEPT ![c] = "open"]
    /\ UNCHANGED broadcast
    /\ UNCHANGED <<rl_vars, pl_vars, api_vars, demo_vars, lib_call, liq_vars, poll>>

\* the peer of client c goes away: from now on a send to it raises, and
\* the receive_text its handler awaits will raise WebSocketDisconnect
PeerGone(c) ==
    /\ ws_conn[c] = "open"
    /\ ws_conn' = [ws_conn EXCEPT ![c] = "gone"]
    /\ UNCHANGED <<ws_clients, broadcast>>
    /\ UNCHANGED <<rl_vars, pl_vars, api_vars, demo_vars, lib_call, liq_vars, poll>>

\* websocket_logs: except WebSocketDisconnect: ws_clients.remove(websocket),
\* a ValueError when the client is not in the list
WebsocketDisconnect(c) ==
    /\ ws_conn[c] = "gone"
    /\ IF \E k \in DOMAIN ws_clients : ws_clients[k] = c
       THEN /\ ws_clients' = SelectSeq(ws_clients, LAMBDA x : x # c)
            /\ ws_conn' = [ws_conn EXCEPT ![c] = "closed"]
       ELSE /\ ws_conn' = [ws_conn EXCEPT ![c] = "remove_raised"]
            /\ UNCHANGED ws_clients
    /\ UNCHANGED broadcast
    /\ UNCHANGED <<rl_vars, pl_vars, api_vars, demo_vars, lib_call, liq_vars, poll>>

\* broadcast_log: one pass of "for ws in ws_clients": the list iterator
\* takes the element at its index from the list as it is now, send_json is
\* awaited, and a client whose send raised is appended to dead
BroadcastSend ==
    /\ broadcast.i <= Len(ws_clients)
    /\ LET ws == ws_clients[broadcast.i]
       IN broadcast' = [i |-> broadcast.i + 1,
                        dead |-> IF ws_conn[ws] = "open" THEN broadcast.dead
                                 ELSE Append(broadcast.dead, ws),
                        raised |-> FALSE]
    /\ UNCHANGED <<ws_clients, ws_conn>>
    /\ UNCHANGED <<rl_vars, pl_vars, api_vars, demo_vars, lib_call, liq_vars, poll>>

\* broadcast_log: the iterator is exhausted; "for ws in dead:
\* ws_clients.remove(ws)" runs without an await and raises ValueError at
\* the first client that is not in the list.  The next call of
\* broadcast_log starts with its index at the head of the list.
BroadcastRemove ==
    /\ broadcast.i > Len(ws_clients)
    /\ LET dead == broadcast.dead
           InList(ws) == \E k \in DOMAIN ws_clients : ws_clients[k] = ws
           missing == {j \in DOMAIN dead : ~InList(dead[j])}
           stop == IF missing = {} THEN Len(dead) + 1
                   ELSE CHOOSE j \in missing : \A m \in missing : j <= m
           removed == {dead[j] : j \in 1..(stop - 1)}
       IN /\ ws_clients' = SelectSeq(ws_clients, LAMBDA x : x \notin removed)
          /\ broadcast' = [i |-> 1, dead |-> <<>>, raised |-> missing # {}]
    /\ UNCHANGED ws_conn
    /\ UNCHANGED <<rl_vars, pl_vars, api_vars, demo_vars, lib_call, liq_vars, poll>>

NextWs ==
    \/ \E c \in 1..NumClients : WebsocketConnect(c)
    \/ \E c \in 1..NumClients : PeerGone(c)
    \/ \E c \in 1..NumClients : WebsocketDisconnect(c)
    \/ BroadcastSend
    \/ BroadcastRemove

SpecWs == Init /\ [][NextWs]_vars

(***************************************************************************)
(* Relayer: properties                                                     *)
(***************************************************************************)
\* position on the chain of an event
EventPos(ev) == ev.txDigest[2]

\* C1 (as stated): within one lifetime no event is handed to its handler more
\* than once, whatever the RPC answers.
C1_AtMostOncePerLifetime == \A ev \in Events : handled[ev] <= 1

\* C1 (amended): within one lifetime no event is handed to its handler more
\* than once, whatever the RPC answers, as long as the seen-set has not been
\* cut back by its size cap.
C1_AtMostOnceUntilTrim == ~trims => \A ev \in Events : handled[ev] <= 1

\* C1 witness: the RPC repeated an event that was already dispatched and the
\* relayer skipped it.
C1_ReplaySkipped ==
    /\ replays > 0
    /\ ~trims
    /\ \E ev \in skipped : handled[ev] = 1

\* C2: an event handed to a handler in an earlier lifetime is not handed to
\* a handler again after a restart (the RPC answering faithfully).
C2_NoRedispatchAfterRestart ==
    replays = 0 => \A ev \in handled_before : handled[ev] = 0

C9_SuccessResetsBackoff ==
    cyc.result = "ok" =>
        /\ current_backoff = 1
        /\ consecutive_errors = 0

\* C9 witness: a cycle completed after two failed ones.
C9_RecoveredAfterErrors ==
    /\ cyc.result = "ok"
    /\ cyc.errs0 >= 2
    /\ cyc.backoff0 >= 4

\* C10: the cursor in memory and the persisted cursor are not moved to or
\* past an event whose handler raised or reported failure in the current
\* cycle (the RPC answering faithfully).
C10_CursorHeldAtFailedEvent ==
    replays = 0 =>
        \A ev \in failed :
            /\ CursorPos(ev.etype, cursors[ev.etype]) < EventPos(ev)
            /\ CursorPos(ev.etype, load_cursors(cursor_file)[ev.etype]) < EventPos(ev)

(***************************************************************************)
(* Agent pipeline: properties                                              *)
(***************************************************************************)
\* the risk agent has returned
RiskDone == pl_pc = "END" /\ trace # <<>> /\ trace[Len(trace)] = "risk_agent"

AllSevenTrue(checks) ==
    /\ DOMAIN checks = CheckNames
    /\ \A n \in CheckNames : checks[n]

\* C3 (as stated): after every run of risk_agent the check map holds all
\* seven entries and risk_approved is true exactly when all seven are true.
C3_FullCheckMapEveryRun ==
    RiskDone =>
        /\ DOMAIN pstate.risk_checks = CheckNames
        /\ pstate.risk_approved <=> AllSevenTrue(pstate.risk_checks)

\* C3 (amended): after every run of risk_agent on a state that carries an
\* optimization result the check map holds all seven entries, whichever of
\* them fail, and risk_approved is true exactly when all seven are true; on
\* a state without an optimization result no check is computed: the check
\* map stays empty, risk_approved is false and the status is error.
C3_FullCheckMapWithResult ==
    RiskDone =>
        IF pstate.optimization_result # None
        THEN /\ DOMAIN pstate.risk_checks = CheckNames
             /\ pstate.risk_approved <=> AllSevenTrue(pstate.risk_checks)
        ELSE /\ DOMAIN pstate.risk_checks = {}
             /\ ~pstate.risk_approved
             /\ pstate.status = "error"

\* C3 witness: a run in which the first check and a later one fail and the
\* map still holds all seven entries.
C3_TwoChecksFail ==
    /\ RiskDone
    /\ DOMAIN pstate.risk_checks = CheckNames
    /\ ~pstate.risk_checks["optimizer_feasible"]
    /\ ~pstate.risk_checks["solver_fast_enough"]
    /\ pstate.risk_checks["slippage_acceptable"]
    /\ ~pstate.risk_approved

\* some guardrail is broken, read off the optimization result and the
\* slippage estimates
SomeCheckFails(opt, slip) ==
    \/ ~opt.feasible
    \/ \E a \in DOMAIN opt.weights : opt.weights[a] > 40
    \/ opt.expected_risk > 45
    \/ opt.expected_return < 1
    \/ opt.solver_time_s > 50
    \/ \A a \in DOMAIN opt.allocation : opt.allocation[a] # 1
    \/ \E a \in DOMAIN slip : slip[a]

OverThreshold(opt) ==
    \/ SumPositive(opt.weights, DOMAIN opt.weights) * 1000000 > 50000 * 100
    \/ opt.expected_risk > 30

\* C4: for every optimization result given to risk_agent the status is
\* rejected exactly when a check fails, pending_approval exactly when no
\* check fails and the value or the risk threshold is exceeded, approved
\* exactly when no check fails and neither is exceeded; guardrails are
\* inclusive at the limit, the approval thresholds strict.
C4_StatusFromChecks ==
    (RiskDone /\ pstate.optimization_result # None) =>
        LET opt == pstate.optimization_result[1]
            fails == SomeCheckFails(opt, pstate.slippage_estimates)
        IN /\ pstate.status = "rejected" <=> fails
           /\ pstate.status = "pending_approval" <=> (~fails /\ OverThreshold(opt))
           /\ pstate.status = "approved" <=> (~fails /\ ~OverThreshold(opt))

\* C4 witness: a result that sits on every limit (risk 0.30, return 0.01,
\* solver time 5.0 s, estimated value exactly 50,000 USD) and is approved.
C4_ApprovedAtTheLimits ==
    /\ RiskDone
    /\ pstate.optimization_result # None
    /\ pstate.status = "approved"
    /\ pstate.optimization_result[1].expected_risk = 30
    /\ pstate.optimization_result[1].expected_return = 1
    /\ pstate.optimization_result[1].solver_time_s = 50
    /\ SumPositive(pstate.optimization_result[1].weights,
                   DOMAIN pstate.optimization_result[1].weights) = 5

AgentOrder == <<"market_agent", "execution_agent", "risk_agent">>

C5_SubmitOnlyWhenCleared ==
    \A r \in OptReqs :
        /\ txs[r].optimize > 0 => opt_req[r].status = "approved"
        /\ txs[r].approve > 0 =>
              (opt_req[r].status = "pending_approval" /\ r \in resolved)
        /\ opt_req[r].status \in {"rejected", "error"} =>
              (txs[r].optimize = 0 /\ txs[r].approve = 0)
        /\ (opt_req[r].status = "pending_approval" /\ r \notin resolved) =>
              (txs[r].optimize = 0 /\ txs[r].approve = 0)

\* C5 witness: one plan was executed after its approval was resolved while
\* another plan, rejected by the risk agent, has run to its response with no
\* transaction.
C5_ApprovedAfterResolve ==
    \E r1, r2 \in OptReqs :
        /\ opt_req[r1].status = "pending_approval"
        /\ r1 \in resolved
        /\ txs[r1].approve = 1
        /\ opt_req[r2].status = "rejected"
        /\ opt_req[r2].pc = "done"
        /\ txs[r2].optimize = 0

\* the first step of /approve request a
Resolves(a) == app_req[a].pc = "new" /\ app_req'[a].pc # "new"

\* C6: resolving an approval removes and returns the entry in one step: a
\* request that finds its id in the store obtains the entry and the id is
\* gone from the store afterwards, a request that does not find it gets the
\* not-found answer and leaves the store unchanged; no two requests obtain
\* the entry of the same plan, and at most one transaction is executed for it.
C6_AtomicResolve ==
    /\ [](\A a1, a2 \in AppReqs :
            (a1 # a2 /\ app_req[a1].entry # None) =>
                app_req[a1].entry # app_req[a2].entry)
    /\ [](\A r \in OptReqs : txs[r].approve <= 1)
    /\ [](\A a \in AppReqs :
            app_req[a].pc # "new" =>
                (app_req[a].result = "not_found" <=> app_req[a].entry = None))
    /\ [][\A a \in AppReqs :
            Resolves(a) =>
                LET id == app_req'[a].approval_id
                IN IF id \in DOMAIN pending_approvals
                   THEN /\ app_req'[a].entry = Some(pending_approvals[id])
                        /\ id \notin DOMAIN pending_approvals'
                        /\ \A i \in DOMAIN pending_approvals \ {id} :
                              /\ i \in DOMAIN pending_approvals'
                              /\ pending_approvals'[i] = pending_approvals[i]
                   ELSE /\ app_req'[a].result = "not_found"
                        /\ pending_approvals' = pending_approvals]_vars

\* C6 witness: two requests carried the same approval id; one obtained the
\* entry and is still awaiting before its transactor call, the other has
\* already been answered not-found.
C6_SecondRequestNotFound ==
    \E a1, a2 \in AppReqs :
        /\ a1 # a2
        /\ app_req[a1].approval_id = app_req[a2].approval_id
        /\ app_req[a1].entry # None
        /\ app_req[a1].pc = "execute"
        /\ app_req[a2].pc = "done"
        /\ app_req[a2].result = "not_found"

(***************************************************************************)
(* Relayer: cursor and persistence properties                              *)
(***************************************************************************)
\* C11: once _poll_event_type has processed an event of an event type
\* (dispatched it or skipped it as a duplicate), the cursor held for that
\* event type is not null.
C11_CursorSetAfterEvent ==
    \A ev \in Events :
        (handled[ev] > 0 \/ ev \in skipped) => cursors[ev.etype] # Null

\* C11 witness: the first page of TaskCreated events was dispatched and the
\* cursor of that type is the id of the last event of the page.
C11_CursorAtLastEvent ==
    /\ RelayerUp
    /\ handled[ChainLog("TaskCreated")[1]] = 1
    /\ handled[ChainLog("TaskCreated")[2]] = 0
    /\ cursors["TaskCreated"] = EventId(ChainLog("TaskCreated")[1])

\* a restart would read from the cursor file exactly the in-memory cursor map
FileHoldsMap == cursor_file.status = "ok" /\ load_cursors(cursor_file) = cursors

C13_FileReplacedAtomically ==
    [][cursor_file.status = "ok" =>
          /\ cursor_file'.status = "ok"
          /\ cursor_file'.content \in {cursor_file.content, cursors}]_vars

C15_SignalEndsInCleanStop ==
    (signalled /\ ~RelayerUp) =>
        /\ health \in {"cancelled", "finished"}
        /\ rpc_client = "closed"
        /\ FileHoldsMap

\* C16: no exception escapes the poll loop: whatever fails (an RPC call, a
\* handler, the closing of the client), run leaves the loop only when the
\* running flag has been cleared, and then it ends without an exception.
C16_LoopEndsOnlyWhenStopped ==
    [][(RelayerUp /\ ~RelayerUp' /\ rl_pc' # "crashed") =>
          (~running /\ rl_pc' = "stopped")]_vars

\* C19: after each _poll_event_type the seen-set holds at most the cap, and
\* a cut keeps the most recently added keys, so the key added last is always
\* in the set.
C19_SeenSetKeepsNewestKeys ==
    /\ Cardinality(processed) <= ProcessedCap
    /\ last_added \subseteq processed

\* the event is among the events the latest poll handed to the handler
InCalls(ev) == \E j \in 1..Len(calls) : calls[j] = ev

\* C20: the handler calls of a poll are the non-duplicate events of the page
\* the RPC returned, in the order of the page (every other event of the page
\* was skipped as a duplicate); a poll dispatches its whole page before the
\* query for the next page is sent.
C20_HandlerCallsInPageOrder ==
    /\ calls = SelectSeq(page, InCalls)
    /\ \A i \in 1..Len(page) : InCalls(page[i]) \/ page[i] \in skipped

\* C20 witness: a page of two events of one type, neither seen before, was
\* handed to the handler in the order of the page.
C20_TwoEventsDispatched ==
    /\ Len(page) = 2
    /\ calls = page
    /\ page[1] # page[2]

(***************************************************************************)
(* Agent pipeline: failure properties                                      *)
(***************************************************************************)
\* C17: run_pipeline never raises: whatever fails inside an agent, the run
\* ends with a returned state, never with an exception passed to the caller.
C17_RunNeverRaises == pl_pc # "raised"

\* C18: when the Market agent has not populated the market data, the run
\* ends with status error and the remaining agents are skipped: no
\* optimization result is produced and the Risk agent is not executed.
C18_NoMarketDataEndsInError ==
    (entry = "pipeline" /\ pl_pc # "market_agent" /\ pstate.market = "none") =>
        /\ pl_pc = "END"
        /\ pstate.status = "error"
        /\ pstate.optimization_result = None
        /\ trace = <<"market_agent">>

(***************************************************************************)
(* Relayer: demo mode properties                                           *)
(***************************************************************************)
\* the configuration is one the claim calls demo mode: the demo flag, or a
\* package id or task object id that is unset or the placeholder
DemoConfigured ==
    \/ config.force_demo
    \/ config.package_id \in {"", "0x..."}
    \/ config.task_object_id \in {"", "0x..."}

\* C21: a process started under a demo configuration never sends an RPC
\* query (no client is ever opened), never calls an event handler, creates
\* no health task, and keeps the cursor map it loaded and the empty dedup
\* set; it runs the demo loop, whose only outside call is the QRNG.
C21_DemoTouchesNothing ==
    (DemoConfigured /\ lifetime > 0) =>
        /\ rl_pc \in {"demo", "demo_qrng", "demo_sleep", "stopped"}
        /\ rpc_client = "none"
        /\ health = "none"
        /\ \A ev \in Events : handled[ev] = 0
        /\ calls = <<>>
        /\ processed = {}
        /\ cursors = load_cursors(cursor_file)

\* C21 witness: a demo process that loaded a non-null cursor has run its
\* fifth cycle, the QRNG returned a number, and the cursor is still held.
C21_DemoRanQrng ==
    /\ DemoConfigured
    /\ rl_pc = "demo_sleep"
    /\ demo_cycle = 5
    /\ qrng = "ok"
    /\ cursors # NoCursors

C23_WeightOnlyOnSelected ==
    lib_call.fn = "solve"
    => LET r == lib_call.out
       IN /\ \A i \in 1..NumAssets : r.weights[i] > 0 => r.allocation[i] = 1
          /\ \A i \in 1..NumAssets : r.allocation[i] = 0 => r.weights[i] = 0
          /\ (\A i \in 1..NumAssets : r.allocation[i] = 0)
                => /\ \A i \in 1..NumAssets : r.weights[i] = 0
                   /\ r.expected_return = 0
                   /\ r.expected_risk = 0

\* witness: a result that gives weight to a selected asset and leaves out an
\* asset with a positive return and a positive unconstrained direction
C23_PartialSelection ==
    /\ lib_call.fn = "solve"
    /\ \E i, j \in 1..NumAssets :
          /\ lib_call.out.allocation[i] = 1
          /\ lib_call.out.weights[i] > 0
          /\ lib_call.out.allocation[j] = 0
          /\ lib_call.inp.raw_w[j] > 0
          /\ lib_call.inp.mu[j] > 0

(***************************************************************************)
(* C24: min_out of a slippage estimate                                     *)
(***************************************************************************)
\* C24: for every estimate of estimate_market_impact (order size >= 0, any
\* daily volume, any impact parameters) 0 <= min_out_usd <= order_size_usd,
\* min_out_usd is order_size_usd * (1 - total_slippage_pct) floored at 0, and
\* min_out_mist >= 0.
C24_MinOutBetweenZeroAndOrder ==
    lib_call.fn = "estimate_market_impact"
    => LET e == lib_call.out
           order == lib_call.inp.order_size_usd
           product == (order * (MoneyScale - e.total_slippage_pct)) \div MoneyScale
       IN /\ 0 <= e.min_out_usd
          /\ e.min_out_usd <= order
          /\ e.min_out_usd = (IF product > 0 THEN product ELSE 0)
          /\ e.min_out_mist >= 0

(***************************************************************************)
(* C27: the registry of abort codes                                        *)
(***************************************************************************)
\* C27: ERROR_MAP has an entry for every code in {0..11, 100..103}; the code
\* field of an entry equals its key, its severity is warning, error or
\* critical, its frontend_message has at least 10 characters, and the codes
\* and the constant names are pairwise distinct.  A parse that finds a
\* registered code therefore returns the entry of exactly that code.
C27_RegistryComplete ==
    lib_call.fn = "parse_abort_error"
    => /\ \A c \in (0..11) \cup (100..103) :
             /\ c \in DOMAIN ERROR_MAP
             /\ ERROR_MAP[c].code = c
             /\ ERROR_MAP[c].severity \in {"warning", "error", "critical"}
             /\ ERROR_MAP[c].message_len >= 10
       /\ \A c, d \in DOMAIN ERROR_MAP :
             c # d => /\ ERROR_MAP[c].code # ERROR_MAP[d].code
                      /\ ERROR_MAP[c].constant # ERROR_MAP[d].constant
       /\ lib_call.out.mapped # <<>> => lib_call.out.mapped[1].code = lib_call.out.code[1]

\* witness: a text with abort code 2 was parsed and the entry ECooldownActive
\* came back
C27_RegisteredCodeParsed ==
    /\ lib_call.fn = "parse_abort_error"
    /\ lib_call.out.code = <<2>>
    /\ lib_call.out.mapped # <<>>
    /\ lib_call.out.mapped[1].constant = "ECooldownActive"

(***************************************************************************)
(* C28: parsing an abort error                                             *)
(***************************************************************************)
\* C28: parse_abort_error takes the code from the first of the ordered
\* patterns that matches; a registered code gives is_move_abort with the
\* registry entry and its message, an unregistered code gives is_move_abort
\* without a mapped entry, and a text that no pattern matches gives
\* is_move_abort = false, code None and the raw text cut to RAW_LIMIT.
C28_FirstPatternWins ==
    lib_call.fn = "parse_abort_error"
    => LET raw == lib_call.inp
           out == lib_call.out
           Hits == {k \in 1..5 : PatternSearch(k, raw) # <<>>}
       IN IF Hits = {}
          THEN /\ ~out.is_move_abort
               /\ out.code = <<>>
               /\ out.mapped = <<>>
               /\ Len(out.frontend_message.raw) <= RAW_LIMIT
               /\ \A i \in 1..Len(out.frontend_message.raw) :
                     out.frontend_message.raw[i] = raw[i]
               /\ Len(raw) <= RAW_LIMIT => out.frontend_message.raw = raw
          ELSE /\ out.is_move_abort
               /\ \E k \in Hits :
                     /\ \A h \in Hits : k <= h
                     /\ out.code = PatternSearch(k, raw)
               /\ out.code[1] \in DOMAIN ERROR_MAP
                     => /\ out.mapped = <<ERROR_MAP[out.code[1]]>>
                        /\ out.frontend_message.text = ERROR_MAP[out.code[1]].frontend_message
               /\ out.code[1] \notin DOMAIN ERROR_MAP => out.mapped = <<>>

\* witness: "status_code2Move abort 104": the third pattern gives 104 before
\* the fourth, which would give the registered code 2, is tried
C28_EarlierPatternBeatsEarlierText ==
    /\ lib_call.fn = "parse_abort_error"
    /\ PatternSearch(3, lib_call.inp) = <<104>>
    /\ PatternSearch(4, lib_call.inp) = <<2>>
    /\ lib_call.out.code = <<104>>
    /\ lib_call.out.mapped = <<>>

(***************************************************************************)
(* C29: energy of the binary quadratic model                               *)
(***************************************************************************)
\* C29: for every binary vector x and symmetric covariance, the energy of
\* the model built by PortfolioQUBO.build equals
\* lambda_risk * x'Cov x - lambda_return * mu'x + lambda_budget * (sum(x) - K)^2.
C29_EnergyIsObjective ==
    lib_call.fn = "build"
    => LET all == 1..NumAssets
           mu == lib_call.inp.mu
           cov == lib_call.inp.cov
           cfg == lib_call.inp.cfg
       IN \A x \in [all -> {0, 1}] :
             LET count == VecSum(x, all)
                 risk == VecSum([p \in all \X all |-> x[p[1]] * x[p[2]] * cov[p[1]][p[2]]],
                                all \X all)
                 return == VecSum([i \in all |-> mu[i] * x[i]], all)
             IN BqmEnergy(lib_call.out, x)
                  = cfg.lambda_risk * risk - cfg.lambda_return * return
                    + cfg.lambda_budget * (count - cfg.target_assets)
                        * (count - cfg.target_assets) * MoneyScale

\* witness: a model was built for correlated assets with a budget penalty;
\* its couplings differ with the covariances
C29_BuiltForCorrelatedAssets ==
    /\ lib_call.fn = "build"
    /\ lib_call.inp.cfg.lambda_budget > 0
    /\ lib_call.inp.cfg.target_assets = 2
    /\ <<1, 2>> \in DOMAIN lib_call.out.quadratic
    /\ <<1, 3>> \in DOMAIN lib_call.out.quadratic
    /\ lib_call.out.quadratic[<<1, 2>>] < lib_call.out.quadratic[<<1, 3>>]

C26_CreationNeverReplaces ==
    [][\A r \in OptReqs :
          (/\ opt_req[r].pc = "branch"
           /\ OptimizeBranch(opt_req[r].status, opt_req[r].has_opt) = "store"
           /\ opt_req'[r].pc = "respond")
          => /\ Cardinality(DOMAIN pending_approvals')
                  = Cardinality(DOMAIN pending_approvals) + 1
             /\ \A i \in DOMAIN pending_approvals :
                   /\ i \in DOMAIN pending_approvals'
                   /\ pending_approvals'[i] = pending_approvals[i]]_vars

(***************************************************************************)
(* C30: determinism of the agents                                          *)
(***************************************************************************)
\* C30: each agent is a pure function of its input state: two executions on
\* equal input states give equal output states, so two runs on the same
\* inputs end with the same expected returns, allocation and weights.
C30_EqualInputsEqualOutputs ==
    lib_call.fn = "run_twice" => lib_call.out[1] = lib_call.out[2]

(***************************************************************************)
(* C31: the end of a run that had market data                              *)
(***************************************************************************)
\* C31: every run_pipeline call with market data available (real or mock)
\* terminates by returning a state whose status is approved, rejected or
\* pending_approval, never pending, with a populated optimization_result
\* and a risk_checks map of all seven checks.
C31_RunWithMarketDataEndsDecided ==
    (/\ entry = "pipeline"
     /\ pstate.market # "none"
     /\ pl_pc \in {"END", "raised"})
    => /\ pl_pc = "END"
       /\ pstate.status \in {"approved", "rejected", "pending_approval"}
       /\ pstate.optimization_result # None
       /\ DOMAIN pstate.risk_checks = CheckNames

C33_EachPairTriggersOnce ==
    lib_call.fn = "run_relayer"
    => \A i \in DOMAIN lib_call.inp :
          Cardinality({j \in DOMAIN lib_call.out :
                          lib_call.out[j] = lib_call.inp[i]}) = 1

(***************************************************************************)
(* C34: the time to live of a cached pool                                  *)
(***************************************************************************)
\* C34: get_dynamic_position_limit(pool) answers from the cache only when
\* the cached entry of that pool was fetched less than CACHE_TTL_S seconds
\* ago, whatever calls for other pools came in between.
C34_CacheAnswerIsFresh ==
    (limit_call.fn = "get_dynamic_position_limit" /\ limit_call.source = "cache")
    => now - liquidity_cache[limit_call.pool_name].timestamp < CACHE_TTL_S

(***************************************************************************)
(* C35: a stored cursor and the events behind it                           *)
(***************************************************************************)
\* C35: whenever the cursor of an event type, in memory or in the cursor
\* file (whoever saved it: the end of a cycle, the signal handler, the
\* health task), is the cursor c a query returned, the events of that
\* page, up to its last event, which c names, have been handed to the
\* handler or skipped as duplicates; while a page is being dispatched,
\* no cursor names an event of it that was never dispatched.
C35_CursorNeverAheadOfDispatch ==
    \A et \in EventTypes :
       \A c \in {cursors[et], load_cursors(cursor_file)[et]} :
          c # Null
          => \E ev \in Events :
                /\ EventId(ev) = c
                /\ \/ handled[ev] > 0
                   \/ ev \in skipped
                   \/ ev \in handled_before

\* a page of two events is half dispatched: its first event has been
\* handled, its second has never been, and the health task has made its
\* last save after a signal
C35_SavedInMidPage ==
    /\ rl_pc = "cycle"
    /\ poll.pc = "dispatch"
    /\ Len(page) = 2
    /\ poll.i = 2
    /\ handled[page[1]] > 0
    /\ handled[page[2]] = 0
    /\ page[2] \notin handled_before
    /\ health = "finished"

(***************************************************************************)
(* C36: the backoff as a function of the error count                       *)
(***************************************************************************)
\* C36: in every state of the relayer metrics current_backoff is
\* min(2^consecutive_errors, MAX_BACKOFF_S): it lies between 1 and 60 and
\* is 1 exactly when consecutive_errors is 0.
C36_BackoffIsCappedPowerOfTwo ==
    /\ current_backoff = Min(2 ^ consecutive_errors, MAX_BACKOFF_S)
    /\ INITIAL_BACKOFF_S <= current_backoff
    /\ current_backoff <= MAX_BACKOFF_S
    /\ current_backoff = INITIAL_BACKOFF_S <=> consecutive_errors = 0

\* a seventh consecutive error: 2^7 is above the cap, the backoff stays 60
C36_BackoffHeldAtCap ==
    /\ rl_pc = "backoff"
    /\ consecutive_errors = 7
    /\ current_backoff = MAX_BACKOFF_S
    /\ cyc.backoff0 = MAX_BACKOFF_S

(***************************************************************************)
(* C37: the fields of the final state agree with its status                *)
(***************************************************************************)
\* C37: at the end of every run that started from a fresh PipelineState,
\* requires_approval is true exactly when status is pending_approval,
\* approval_reasons is non-empty exactly when status is pending_approval,
\* risk_approved is true exactly when status is approved or
\* pending_approval, and status error implies that risk_approved is false
\* and risk_checks is empty.
C37_FlagsAgreeWithStatus ==
    pl_pc = "END"
    => /\ pstate.requires_approval <=> pstate.status = "pending_approval"
       /\ pstate.approval_reasons # {} <=> pstate.status = "pending_approval"
       /\ pstate.risk_approved <=> pstate.status \in {"approved", "pending_approval"}
       /\ pstate.status = "error"
          => ~pstate.risk_approved /\ pstate.risk_checks = EmptyMap

\* a run of the whole graph was rejected although its result is above an
\* approval threshold
C37_RejectedAboveThreshold ==
    /\ pl_pc = "END"
    /\ entry = "pipeline"
    /\ pstate.status = "rejected"
    /\ ~pstate.requires_approval
    /\ ApprovalReasons(pstate.optimization_result[1]) # {}

(***************************************************************************)
(* C38: the number handed to select_winner                                 *)
(***************************************************************************)
\* C38: handle_agent_registered calls select_winner only with the number
\* of a successful QRNG run; when the QRNG fails to start, exits non-zero,
\* times out or prints no usable result, there is no select_winner call
\* and the handler reports failure; every QRNG invocation increments
\* exactly one of rng_triggered and rng_failures, by one.
C38_WinnerOnlyFromQrng ==
    lib_call.fn = "handle_agent_registered"
    => LET i == lib_call.inp
           o == lib_call.out
           good == i.run = "ok" /\ i.ones # None
       IN /\ good => o.select_winner = <<i.ones[1]>> /\ o.ok = i.select_ok
          /\ ~good => o.select_winner = <<>> /\ ~o.ok
          /\ \/ /\ o.rng_triggered = i.metrics.rng_triggered + 1
                /\ o.rng_failures = i.metrics.rng_failures
             \/ /\ o.rng_triggered = i.metrics.rng_triggered
                /\ o.rng_failures = i.metrics.rng_failures + 1
          /\ i.run # "ok" => o.rng_failures = i.metrics.rng_failures + 1

\* the QRNG process exited non-zero: no call, failure reported, one failure
\* more counted
C38_QrngExitedNonZero ==
    /\ lib_call.fn = "handle_agent_registered"
    /\ lib_call.inp.run = "nonzero_exit"
    /\ lib_call.inp.select_ok
    /\ lib_call.out.select_winner = <<>>
    /\ ~lib_call.out.ok
    /\ lib_call.out.rng_failures = lib_call.inp.metrics.rng_failures + 1

(***************************************************************************)
(* C39: what /approve does with the action                                 *)
(***************************************************************************)
\* C39: an /approve request that finds its id removes the entry from the
\* store whatever its action is; with the action reject nothing is
\* executed; with every other action, approve or not, the stored trade is
\* executed: the plan of the stored snapshot, as a dry run or a real
\* transaction as the dry_run flag of the original /optimize request says.
C39_EveryActionButRejectExecutes ==
    /\ [](\A a \in AppReqs :
            (app_req[a].entry # None /\ app_req[a].pc \in {"respond", "done"})
            => LET e == app_req[a].entry[1]
               IN IF app_req[a].action = "reject"
                  THEN /\ app_req[a].tx = "none"
                       /\ app_req[a].result = "rejected"
                  ELSE /\ app_req[a].tx = IF opt_req[e.plan].dry_run
                                          THEN "dry_run" ELSE "execute_rebalance"
                       /\ app_req[a].result = "approved"
                       /\ txs[e.plan].approve >= 1)
    /\ [][\A a \in AppReqs :
            (Resolves(a) /\ app_req'[a].approval_id \in DOMAIN pending_approvals)
            => /\ app_req'[a].approval_id \notin DOMAIN pending_approvals'
               /\ app_req'[a].action = "reject" => app_req'[a].pc = "respond"
               /\ app_req'[a].action # "reject" => app_req'[a].pc = "execute"]_vars

\* an /approve request with the action "hold" executed a real transaction
C39_HoldExecuted ==
    \E a \in AppReqs :
        /\ app_req[a].pc = "done"
        /\ app_req[a].action = "hold"
        /\ app_req[a].tx = "execute_rebalance"
        /\ app_req[a].approval_id \notin DOMAIN pending_approvals

(***************************************************************************)
(* C40: broadcasts and the list of clients                                 *)
(***************************************************************************)
\* C40: broadcast_log never raises, and for any interleaving of a broadcast
\* with connects and disconnects handled by websocket_logs no removal of a
\* client that is already out of ws_clients is attempted, by the broadcast
\* or by the handler.
C40_NoRemovalOfRemovedClient ==
    /\ ~broadcast.raised
    /\ \A c \in 1..NumClients : ws_conn[c] # "remove_raised"


====
